---------------------------- MODULE Spec2Model ----------------------------
(***************************************************************************)
(* Text2SQL router, experiment ledger and Chroma retrieval connector.      *)
(*                                                                         *)
(* Text is modelled as a sequence of character codes (ASCII), so that      *)
(* str.lower(), the substring test `in` and base64 encoding are computed   *)
(* the way the Python code computes them.                                  *)
(***************************************************************************)
EXTENDS Integers, Sequences, FiniteSets, TLC

VARIABLES
    \* ---- classification harness (detect_processing_mode as a function)
    cls_question,      \* the question handed to detect_processing_mode
    cls_variant,       \* the same question in another letter case
    cls_calls,         \* the calls made so far: <<[question, mode]>>
    \* ---- router: one Streamlit session running main()
    pc,                \* position of main()'s "Process Query" handler
    systems,           \* initialize_systems(): which backends exist
    processing_mode,   \* st.session_state.processing_mode
    final_question,    \* the question of the query being processed
    mode,              \* unified_query_processor's local `mode`
    invoked,           \* strategies invoked by the current processor call
    worker,            \* the executor's worker thread running process_autogen_sync
    timed_out,         \* future.result(timeout=120) raised TimeoutError
    response,          \* the response dict main() holds
    shown,             \* what the current query has put on the page, in order
    ledger,            \* the MLflow store: the runs created, in order
    log_calls,         \* log_query_experiment calls made for the current query
    runs_before,       \* number of runs in the store when the query started
    current_run_id,    \* st.session_state.current_run_id
    queries,           \* queries processed so far (bounded)
    \* ---- retrieval: ChromaSearchConnector
    collection,        \* the query-cache collection: id -> stored record
    clock,             \* datetime.now(timezone.utc), as a counter
    adds,              \* successful add_entry_to_index calls, in order
    last_call,         \* a search call: its arguments and the collection's answer
    last_result,       \* what that call returned, once it has
    \* ---- process_autogen_sync: run_autogen() reading one agent stream
    stream,            \* the events process_user_message will yield, in order
    stream_pc,         \* position of run_autogen()
    consumed,          \* number of events the `async for` has taken
    response_data,     \* run_autogen's local: <<>> for None, <<event>> otherwise
    autogen_result,    \* what process_autogen_sync returned, once it has
    \* ---- Text2SQLMLflowTracker used directly, and the feedback section
    hidden,            \* ids of runs the store holds but does not serve yet
    feedback_calls,    \* log_user_feedback calls made so far, in order
    stats,             \* what the last get_experiment_stats call returned
    \* ---- one strategy invocation: process_pattern_match or process_ai_powered
    strategy_call,     \* the invocation: which strategy, question, provider
    strategy_pc,       \* position of the strategy coroutine
    requests,          \* requests it has sent to the LLM and to the database
    strategy_result,   \* what it returned, once it has
    \* ---- process_autogen invocations and the objects they create
    invocations,       \* invocation -> its position and the objects it uses
    objects,           \* the objects created so far: id -> kind, creator, state
    \* ---- concurrent add_entry_to_index calls on one event loop
    inflight           \* call -> its position, document and stamp

vars == <<cls_question, cls_variant, cls_calls,
          pc, systems, processing_mode, final_question, mode, invoked, worker,
          timed_out, response, shown, ledger, log_calls, runs_before,
          current_run_id, queries,
          collection, clock, adds, last_call, last_result,
          stream, stream_pc, consumed, response_data, autogen_result,
          hidden, feedback_calls, stats,
          strategy_call, strategy_pc, requests, strategy_result,
          invocations, objects, inflight>>

cls_vars == <<cls_question, cls_variant, cls_calls>>

router_vars == <<pc, systems, processing_mode, final_question, mode, invoked,
                 worker, timed_out, response, shown, ledger, log_calls,
                 runs_before, current_run_id, queries>>

retrieval_vars == <<collection, clock, adds, last_call, last_result>>

stream_vars == <<stream, stream_pc, consumed, response_data, autogen_result>>

tracker_vars == <<hidden, feedback_calls, stats>>

strategy_vars == <<strategy_call, strategy_pc, requests, strategy_result>>

isolation_vars == <<invocations, objects>>

\* Python's None, where a string is expected
None == "None"

\* Python's None, where a response dict is expected
NoResponse == [is_none |-> TRUE]

(***************************************************************************)
(* Text                                                                    *)
(***************************************************************************)

\* str.lower() on one ASCII character: 'A'..'Z' (65..90) map to 'a'..'z'
LowerChar(c) == IF c \in 65..90 THEN c + 32 ELSE c

\* str.upper() on one ASCII character
UpperChar(c) == IF c \in 97..122 THEN c - 32 ELSE c

\* str.lower()
Lower(s) == [i \in 1..Len(s) |-> LowerChar(s[i])]

Upper(s) == [i \in 1..Len(s) |-> UpperChar(s[i])]

\* str.swapcase()
SwapCase(s) ==
    [i \in 1..Len(s) |-> IF s[i] \in 65..90 THEN s[i] + 32 ELSE UpperChar(s[i])]

\* Python's `p in s` for strings
IsSubstring(p, s) ==
    \E i \in 0..(Len(s) - Len(p)) : SubSeq(s, i + 1, i + Len(p)) = p

\* s.startswith(p)
StartsWith(s, p) == Len(p) <= Len(s) /\ SubSeq(s, 1, Len(p)) = p

RECURSIVE Concat(_)
\* "".join(parts)
Concat(parts) ==
    IF parts = <<>> THEN <<>> ELSE Head(parts) \o Concat(Tail(parts))

(***************************************************************************)
(* PATTERN_QUERIES and detect_processing_mode                              *)
(***************************************************************************)

\* The dict, in definition order (Python dicts iterate in insertion order).
PATTERN_QUERIES == <<
    \* "how many customers"
    [pattern |-> <<104,111,119,32,109,97,110,121,32,99,117,115,116,111,109,101,114,115>>,
     sql_query |-> "SELECT COUNT(*) as customer_count FROM Customer"],
    \* "total customers"
    [pattern |-> <<116,111,116,97,108,32,99,117,115,116,111,109,101,114,115>>,
     sql_query |-> "SELECT COUNT(*) as customer_count FROM Customer"],
    \* "how many products"
    [pattern |-> <<104,111,119,32,109,97,110,121,32,112,114,111,100,117,99,116,115>>,
     sql_query |-> "SELECT COUNT(*) as product_count FROM Product"],
    \* "total products"
    [pattern |-> <<116,111,116,97,108,32,112,114,111,100,117,99,116,115>>,
     sql_query |-> "SELECT COUNT(*) as product_count FROM Product"],
    \* "how many orders"
    [pattern |-> <<104,111,119,32,109,97,110,121,32,111,114,100,101,114,115>>,
     sql_query |-> "SELECT COUNT(*) as order_count FROM SalesOrderHeader"],
    \* "total orders"
    [pattern |-> <<116,111,116,97,108,32,111,114,100,101,114,115>>,
     sql_query |-> "SELECT COUNT(*) as order_count FROM SalesOrderHeader"],
    \* "total sales"
    [pattern |-> <<116,111,116,97,108,32,115,97,108,101,115>>,
     sql_query |-> "SELECT SUM(TotalDue) as total_sales FROM SalesOrderHeader"],
    \* "average order"
    [pattern |-> <<97,118,101,114,97,103,101,32,111,114,100,101,114>>,
     sql_query |-> "SELECT AVG(TotalDue) as average_order_value FROM SalesOrderHeader"],
    \* "top customers"
    [pattern |-> <<116,111,112,32,99,117,115,116,111,109,101,114,115>>,
     sql_query |-> "SELECT ... CustomerName, SUM(s.TotalDue) as TotalSales ... LIMIT 10"],
    \* "top products"
    [pattern |-> <<116,111,112,32,112,114,111,100,117,99,116,115>>,
     sql_query |-> "SELECT p.Name, ... TotalRevenue ... LIMIT 10"],
    \* "product categories"
    [pattern |-> <<112,114,111,100,117,99,116,32,99,97,116,101,103,111,114,105,101,115>>,
     sql_query |-> "SELECT pc.Name as Category, COUNT(p.ProductID) as ProductCount ..."],
    \* "recent orders"
    [pattern |-> <<114,101,99,101,110,116,32,111,114,100,101,114,115>>,
     sql_query |-> "SELECT SalesOrderID, OrderDate, TotalDue, Status ... LIMIT 10"] >>

complex_indicators == <<
    <<97,110,97,108,121,115,105,115>>,                                   \* "analysis"
    <<99,111,109,112,97,114,101>>,                                       \* "compare"
    <<99,111,114,114,101,108,97,116,105,111,110>>,                       \* "correlation"
    <<116,114,101,110,100>>,                                             \* "trend"
    <<99,111,109,112,114,101,104,101,110,115,105,118,101>>,              \* "comprehensive"
    <<109,117,108,116,105,45,100,105,109,101,110,115,105,111,110,97,108>>, \* "multi-dimensional"
    <<112,114,111,103,114,101,115,115,105,111,110>>,                     \* "progression"
    <<100,101,116,101,114,105,111,114,97,116,105,110,103>>,              \* "deteriorating"
    <<99,111,110,99,101,114,110,105,110,103,32,112,97,116,116,101,114,110,115>>, \* "concerning patterns"
    <<101,97,114,108,121,32,119,97,114,110,105,110,103>>,                \* "early warning"
    <<109,117,108,116,105,112,108,101,32,119,97,114,110,105,110,103,32,115,105,103,110,115>> >> \* "multiple warning signs"

RECURSIVE FirstPattern_last_match(_, _)
\* A slip the code could have made: a loop without the early return, so that the
\* last matching key is the one left standing.
FirstPattern_last_match(question_lower, i) ==
    IF i > Len(PATTERN_QUERIES) THEN 0
    ELSE LET later == FirstPattern_last_match(question_lower, i + 1) IN
         IF later # 0 THEN later
         ELSE IF IsSubstring(PATTERN_QUERIES[i].pattern, question_lower) THEN i
         ELSE 0

RECURSIVE FirstPattern(_, _)
\* `for pattern, sql_query in PATTERN_QUERIES.items(): if pattern in question_lower`:
\* the index of the first key, from index i on, that occurs in question_lower; 0 if none
FirstPattern(question_lower, i) ==
    IF i > Len(PATTERN_QUERIES) THEN 0
    ELSE IF IsSubstring(PATTERN_QUERIES[i].pattern, question_lower) THEN i
    ELSE FirstPattern(question_lower, i + 1)

\* any(indicator in question_lower for indicator in complex_indicators)
AnyIndicator(question_lower) ==
    \E k \in 1..Len(complex_indicators) :
        IsSubstring(complex_indicators[k], question_lower)

\* A slip the code could have made: the keyword check ahead of the dictionary,
\* on the question as typed.
detect_processing_mode_keywords_first(question) ==
    IF AnyIndicator(question) THEN "AutoGen Multi-Agent"
    ELSE IF FirstPattern(question, 1) # 0 THEN "Pattern Match"
    ELSE "AI-Powered"

detect_processing_mode(question) ==
    LET question_lower == Lower(question) IN
    IF FirstPattern(question_lower, 1) # 0 THEN "Pattern Match"
    ELSE IF AnyIndicator(question_lower) THEN "AutoGen Multi-Agent"
    ELSE "AI-Powered"

(***************************************************************************)
(* Questions                                                               *)
(***************************************************************************)

\* Pieces a question is put together from; two pieces can form a key together
\* ("top" + " products"), and several carry upper-case letters.
Fragments == {
    <<72,111,119,32,77,97,110,121,32,67,117,115,116,111,109,101,114,115>>, \* "How Many Customers"
    <<84,111,116,97,108,32,83,65,76,69,83>>,                               \* "Total SALES"
    <<116,111,112>>,                                                       \* "top"
    <<32,112,114,111,100,117,99,116,115>>,                                 \* " products"
    <<65,110,97,108,121,115,105,115>>,                                     \* "Analysis"
    <<32,84,82,69,78,68,32>>,                                              \* " TREND "
    <<83,104,111,119,32,109,101,32>>,                                      \* "Show me "
    <<63>> }                                                               \* "?"

MaxFragments == 2

\* every question made of at most MaxFragments pieces
Questions ==
    { Concat(parts) : parts \in UNION { [1..n -> Fragments] : n \in 0..MaxFragments } }

CaseVariants(q) == {Lower(q), Upper(q), SwapCase(q)}


(***************************************************************************)
(* Classification harness: detect_processing_mode applied to a question    *)
(* and to a case variant of it.                                            *)
(***************************************************************************)

MaxCalls == 2

ClsInit ==
    /\ cls_question \in Questions
    /\ cls_variant \in CaseVariants(cls_question)
    /\ cls_calls = <<>>

\* one call of detect_processing_mode, on the question or on its variant
ClassifyCall ==
    /\ UNCHANGED <<router_vars, retrieval_vars, stream_vars, strategy_vars, isolation_vars, inflight, tracker_vars>>
    /\ Len(cls_calls) < MaxCalls
    /\ \E q \in {cls_question, cls_variant} :
          cls_calls' = Append(cls_calls,
                              [question |-> q, mode |-> detect_processing_mode(q)])
    /\ UNCHANGED <<cls_question, cls_variant>>

(***************************************************************************)
(* The strategies                                                          *)
(***************************************************************************)

\* what db_connector.query_execution(sql) does: returns rows, returns no row, raises
ExecOutcomes == {"rows", "no_rows", "raises"}

\* what the completion request does: returns SQL text, raises
CompletionOutcomes == {"sql", "raises"}

\* the rows a query_execution outcome stands for (None and [] are both written
\* <<>>: the code only tests `results` for truth and takes its len when true)
Rows(exec) == IF exec = "rows" THEN <<"row">> ELSE <<>>

\* a response dict; an absent key is None (<<>> for results)
Resp(method, success, sql_query, results, error, response_type) ==
    [method |-> method, success |-> success, sql_query |-> sql_query,
     results |-> results, error |-> error, response_type |-> response_type]

process_pattern_match(question, exec) ==
    LET question_lower == Lower(question)
        i == FirstPattern(question_lower, 1)
    IN  IF i = 0 THEN NoResponse
        ELSE IF exec = "raises"
        THEN Resp("Pattern Match", FALSE, PATTERN_QUERIES[i].sql_query, <<>>,
                  "query_execution error", None)
        ELSE Resp("Pattern Match", TRUE, PATTERN_QUERIES[i].sql_query, Rows(exec),
                  None, None)

\* A slip the code could have made: an except branch that answers as if the
\* query had run.
process_ai_powered_success_on_error(question, llm_provider, completion, exec) ==
    Resp(IF llm_provider = "claude" THEN "AI-Powered (CLAUDE)"
                                    ELSE "AI-Powered (OPENAI)",
         TRUE, "generated sql", Rows(exec), None, None)

process_ai_powered(question, llm_provider, completion, exec) ==
    IF completion = "raises"
    THEN Resp("AI-Powered", FALSE, None, <<>>, "completion error", None)
    ELSE IF exec = "raises"
    THEN Resp("AI-Powered", FALSE, None, <<>>, "query_execution error", None)
    ELSE Resp(IF llm_provider = "claude" THEN "AI-Powered (CLAUDE)"
                                         ELSE "AI-Powered (OPENAI)",
              TRUE, "generated sql", Rows(exec), None, None)

\* what process_autogen_sync can return
AutogenOutcomes == {"answer", "disambiguation", "unknown", "no_response", "exception"}

process_autogen_sync(question, outcome) ==
    CASE outcome = "answer" ->
            Resp("AutoGen Multi-Agent", TRUE, "agent sql", <<"row">>, None, "answer")
      [] outcome = "disambiguation" ->
            Resp("AutoGen Multi-Agent", TRUE, None, <<>>, None, "disambiguation")
      [] outcome = "unknown" ->
            Resp("AutoGen Multi-Agent", TRUE, None, <<>>, None, "unknown")
      [] outcome = "no_response" ->
            Resp("AutoGen Multi-Agent", FALSE, None, <<>>,
                 "No response received from AutoGen system", None)
      [] OTHER ->
            Resp("AutoGen Multi-Agent", FALSE, None, <<>>,
                 "AutoGen processing failed: error", None)

(***************************************************************************)
(* unified_query_processor                                                 *)
(***************************************************************************)

\* A slip the code could have made: classifying whatever mode was selected.
ModeFor_always_detect(selected, question) == detect_processing_mode(question)

\* `if mode == "Smart Auto": mode = detect_processing_mode(question)`
ModeFor(selected, question) ==
    IF selected = "Smart Auto" THEN detect_processing_mode(question) ELSE selected

\* `if mode in ["Smart Auto", "Pattern Match"]`
TriesPattern(m) == m \in {"Smart Auto", "Pattern Match"}

\* A slip the code could have made: falling through from a pattern miss to the
\* AI strategy.
TriesAI_cascading(m, sys) ==
    m \in {"Smart Auto", "Pattern Match", "AI-Powered"} /\ sys.llm_client

\* `if mode in ["Smart Auto", "AI-Powered"] and systems["llm_client"]`
TriesAI(m, sys) == m \in {"Smart Auto", "AI-Powered"} /\ sys.llm_client

\* `if mode == "AutoGen Multi-Agent" and systems["autogen_system"]`
TriesAutogen(m, sys) == m = "AutoGen Multi-Agent" /\ sys.autogen_system

Fallback(m) ==
    Resp("Fallback", FALSE, None, <<>>,
         "No suitable processing method available for mode", None)

\* The body of unified_query_processor after the mode is fixed, up to the first
\* return or to the submission of the AutoGen worker: the strategies invoked, in
\* order, and the response returned (NoResponse while the worker is awaited).
Dispatch(question, m, sys, exec, completion) ==
    LET tries_pattern  == TriesPattern(m)
        pattern_result == IF tries_pattern THEN process_pattern_match(question, exec)
                          ELSE NoResponse
        inv            == IF tries_pattern THEN <<"process_pattern_match">> ELSE <<>>
    IN  IF pattern_result # NoResponse
        THEN [invoked |-> inv, response |-> pattern_result, awaits |-> FALSE]
        ELSE IF TriesAI(m, sys)
        THEN [invoked  |-> Append(inv, "process_ai_powered"),
              response |-> process_ai_powered(question, sys.llm_provider,
                                              completion, exec),
              awaits   |-> FALSE]
        ELSE IF TriesAutogen(m, sys)
        THEN [invoked |-> Append(inv, "process_autogen"), response |-> NoResponse,
              awaits |-> TRUE]
        ELSE [invoked |-> inv, response |-> Fallback(m), awaits |-> FALSE]


(***************************************************************************)
(* Text2SQLMLflowTracker: the experiment ledger                            *)
(***************************************************************************)

\* `run_id = None`; the store's run ids are 1, 2, ...
NoRunId == 0

\* What the MLflow store does during one log_query_experiment call: accepts
\* everything, or raises in start_run, in the first log_param, or in log_artifact.
MlflowOutcomes == {"ok", "start_run_raises", "log_param_raises", "log_artifact_raises"}

\* a function with no key
Empty == [k \in {} |-> None]

\* the metric logged for the approach, if any
ApproachMetric(approach) ==
    CASE approach = "Pattern Match"       -> ("pattern_match_used" :> 1)
      [] approach = "AI-Powered"          -> ("ai_powered_used" :> 1)
      [] approach = "AutoGen Multi-Agent" -> ("autogen_used" :> 1)
      [] OTHER                            -> Empty

\* A slip the code could have made: logging success = 1 for every run.
SuccessMetric_always(result) == 1

\* `1 if result.get('success', False) else 0`
SuccessMetric(result) == IF result.success THEN 1 ELSE 0

\* The run a complete log_query_experiment writes (session_id and timestamp are
\* left out: no property here reads them; the execution time is a token).
RunRecord(run_id, question, approach, result, status) ==
    [run_id  |-> run_id,
     params  |-> ("question" :> question) @@ ("approach" :> approach)
                 @@ (IF result.sql_query \notin {None, ""}
                     THEN ("sql_query" :> result.sql_query) ELSE Empty)
                 @@ (IF ~result.success /\ result.error \notin {None, ""}
                     THEN ("error_message" :> result.error) ELSE Empty),
     metrics |-> ("execution_time_seconds" :> "elapsed")
                 @@ ("success" :> SuccessMetric(result))
                 @@ ("result_count" :> Len(result.results))
                 @@ ApproachMetric(approach),
     status  |-> status]

\* log_query_experiment: the run id it returns and the runs it adds to the store
log_query_experiment(next_id, question, approach, result, mlflow) ==
    CASE mlflow = "start_run_raises" ->
            [run_id |-> NoRunId, runs |-> <<>>]
      [] mlflow = "log_param_raises" ->
            [run_id |-> next_id,
             runs   |-> << [run_id |-> next_id, params |-> Empty,
                            metrics |-> Empty, status |-> "FAILED"] >>]
      [] mlflow = "log_artifact_raises" ->
            [run_id |-> next_id,
             runs   |-> << RunRecord(next_id, question, approach, result, "FAILED") >>]
      [] OTHER ->
            [run_id |-> next_id,
             runs   |-> << RunRecord(next_id, question, approach, result, "FINISHED") >>]

(***************************************************************************)
(* main(): the "Process Query" handler of one session                      *)
(***************************************************************************)

MaxQueries == 1

RouterQuestions == {
    <<84,111,116,97,108,32,83,65,76,69,83,32,97,110,97,108,121,115,105,115>>, \* "Total SALES analysis"
    <<67,111,109,112,97,114,101,32,84,114,101,110,100,115>>,                  \* "Compare Trends"
    <<83,104,111,119,32,109,101,32,63>> }                                     \* "Show me ?"

\* `mode_options`
ModeOptions(sys) ==
    {"Smart Auto", "Pattern Match", "AI-Powered"}
        \cup (IF sys.autogen_system THEN {"AutoGen Multi-Agent"} ELSE {})

NoWorker == [state |-> "none", hangs |-> FALSE, result |-> NoResponse]

RouterInit ==
    /\ pc = "idle"
    /\ systems \in { [llm_client |-> c, llm_provider |-> p, autogen_system |-> a] :
                       c \in BOOLEAN, p \in {"claude", "openai", None}, a \in BOOLEAN }
    /\ systems.llm_client <=> systems.llm_provider # None
    /\ processing_mode = "Smart Auto"
    /\ final_question = <<>>
    /\ mode = "Smart Auto"
    /\ invoked = <<>>
    /\ worker = NoWorker
    /\ timed_out = FALSE
    /\ response = NoResponse
    /\ shown = <<>>
    /\ ledger = <<>>
    /\ log_calls = <<>>
    /\ runs_before = 0
    /\ current_run_id = NoRunId
    /\ queries = 0

\* The user picks a mode in the sidebar, enters a question and presses
\* "Process Query".
ClickProcessQuery ==
    /\ UNCHANGED <<cls_vars, retrieval_vars, stream_vars, strategy_vars, isolation_vars, inflight, tracker_vars>>
    /\ pc = "idle"
    /\ queries < MaxQueries
    /\ \E q \in RouterQuestions, m \in ModeOptions(systems) :
          /\ final_question' = q
          /\ processing_mode' = m
          /\ mode' = m
    /\ pc' = "processor"
    /\ invoked' = <<>>
    /\ worker' = NoWorker
    /\ timed_out' = FALSE
    /\ response' = NoResponse
    /\ shown' = <<>>
    /\ log_calls' = <<>>
    /\ runs_before' = Len(ledger)
    /\ UNCHANGED <<systems, ledger, current_run_id, queries>>

\* asyncio.run(unified_query_processor(...)) raises: main's `except Exception`
\* shows the error and builds the response itself.
ProcessorRaises ==
    /\ UNCHANGED <<cls_vars, retrieval_vars, stream_vars, strategy_vars, isolation_vars, inflight, tracker_vars>>
    /\ pc = "processor"
    /\ shown' = Append(shown, "st.error: Error processing query")
    /\ response' = Resp("Error", FALSE, None, <<>>, "exception text", None)
    /\ pc' = "display"
    /\ UNCHANGED <<systems, processing_mode, final_question, mode, invoked, worker,
                   timed_out, ledger, log_calls, runs_before, current_run_id, queries>>

\* unified_query_processor up to its return, or up to executor.submit in
\* process_autogen.
ProcessorRuns ==
    /\ UNCHANGED <<cls_vars, retrieval_vars, stream_vars, strategy_vars, isolation_vars, inflight, tracker_vars>>
    /\ pc = "processor"
    /\ mode' = ModeFor(processing_mode, final_question)
    /\ shown' = IF processing_mode = "Smart Auto"
                THEN Append(shown, "st.info: Auto-selected") ELSE shown
    /\ \E exec \in ExecOutcomes, completion \in CompletionOutcomes :
          LET d == Dispatch(final_question, mode', systems, exec, completion) IN
          /\ invoked' = d.invoked
          /\ IF d.awaits
             THEN /\ \E h \in BOOLEAN :
                       worker' = [state |-> "running", hangs |-> h,
                                  result |-> NoResponse]
                  /\ pc' = "autogen_wait"
                  /\ UNCHANGED response
             ELSE /\ response' = d.response
                  /\ pc' = "display"
                  /\ UNCHANGED worker
    /\ UNCHANGED <<systems, processing_mode, final_question, timed_out, ledger,
                   log_calls, runs_before, current_run_id, queries>>

\* The worker thread: process_autogen_sync returns.
WorkerFinishes ==
    /\ UNCHANGED <<cls_vars, retrieval_vars, stream_vars, strategy_vars, isolation_vars, inflight, tracker_vars>>
    /\ worker.state = "running"
    /\ ~worker.hangs
    /\ \E o \in AutogenOutcomes :
          worker' = [worker EXCEPT !.state = "done",
                                   !.result = process_autogen_sync(final_question, o)]
    /\ UNCHANGED <<pc, systems, processing_mode, final_question, mode, invoked,
                   timed_out, response, shown, ledger, log_calls, runs_before,
                   current_run_id, queries>>

\* future.result(timeout=120) returns the worker's result; leaving the `with`
\* block shuts the executor down, whose only worker has finished.
FutureResult ==
    /\ UNCHANGED <<cls_vars, retrieval_vars, stream_vars, strategy_vars, isolation_vars, inflight, tracker_vars>>
    /\ pc = "autogen_wait"
    /\ worker.state = "done"
    /\ response' = worker.result
    /\ pc' = "display"
    /\ UNCHANGED <<systems, processing_mode, final_question, mode, invoked, worker,
                   timed_out, shown, ledger, log_calls, runs_before, current_run_id,
                   queries>>

\* future.result(timeout=120) raises TimeoutError: the exception leaves the
\* `with` block, whose __exit__ runs executor.shutdown(wait=True).
FutureTimeout ==
    /\ UNCHANGED <<cls_vars, retrieval_vars, stream_vars, strategy_vars, isolation_vars, inflight, tracker_vars>>
    /\ pc = "autogen_wait"
    /\ worker.state = "running"
    /\ timed_out' = TRUE
    /\ pc' = "executor_exit"
    /\ UNCHANGED <<systems, processing_mode, final_question, mode, invoked, worker,
                   response, shown, ledger, log_calls, runs_before, current_run_id,
                   queries>>

\* executor.shutdown(wait=True) returns once the worker has finished; then
\* `except Exception` builds the failure from str(TimeoutError()) = "".
ExecutorExit ==
    /\ UNCHANGED <<cls_vars, retrieval_vars, stream_vars, strategy_vars, isolation_vars, inflight, tracker_vars>>
    /\ pc = "executor_exit"
    /\ worker.state = "done"
    /\ response' = Resp("AutoGen Multi-Agent", FALSE, None, <<>>, "", None)
    /\ pc' = "display"
    /\ UNCHANGED <<systems, processing_mode, final_question, mode, invoked, worker,
                   timed_out, shown, ledger, log_calls, runs_before, current_run_id,
                   queries>>

\* display_unified_results, first half: tracker.log_query_experiment(...) and
\* `st.session_state.current_run_id = run_id`.
LogExperiment ==
    /\ UNCHANGED <<cls_vars, retrieval_vars, stream_vars, strategy_vars, isolation_vars, inflight, tracker_vars>>
    /\ pc = "display"
    /\ \E mlflow \in MlflowOutcomes :
          LET out == log_query_experiment(Len(ledger) + 1, final_question,
                                          response.method, response, mlflow) IN
          /\ ledger' = ledger \o out.runs
          /\ current_run_id' = out.run_id
          /\ log_calls' = Append(log_calls, [mlflow |-> mlflow, run_id |-> out.run_id])
    /\ pc' = "render"
    /\ UNCHANGED <<systems, processing_mode, final_question, mode, invoked, worker,
                   timed_out, response, shown, runs_before, queries>>

\* display_unified_results, second half (the failure message or the result),
\* then the rest of the handler.
Render ==
    /\ UNCHANGED <<cls_vars, retrieval_vars, stream_vars, strategy_vars, isolation_vars, inflight, tracker_vars>>
    /\ pc = "render"
    /\ shown' = Append(shown, IF ~response.success THEN "st.error: failed"
                                                   ELSE "result")
    /\ queries' = queries + 1
    /\ pc' = "idle"
    /\ UNCHANGED <<systems, processing_mode, final_question, mode, invoked, worker,
                   timed_out, response, ledger, log_calls, runs_before,
                   current_run_id>>

RouterNext ==
    \/ ClickProcessQuery
    \/ ProcessorRaises
    \/ ProcessorRuns
    \/ WorkerFinishes
    \/ FutureResult
    \/ FutureTimeout
    \/ ExecutorExit
    \/ LogExperiment
    \/ Render

(***************************************************************************)
(* ChromaSearchConnector: add_entry_to_index                               *)
(***************************************************************************)

\* dict helpers: `del d[k]`, and {k: v for k, v in d.items() if k not in ks}
Del(d, k) == [x \in DOMAIN d \ {k} |-> d[x]]

Without(d, ks) == [x \in DOMAIN d \ ks |-> d[x]]

\* the values of a dict
Values(d) == { d[k] : k \in DOMAIN d }

\* one character of the URL-safe base64 alphabet; 64 stands for the pad '='
B64Char(v) ==
    CASE v < 26 -> 65 + v
      [] v >= 26 /\ v < 52 -> 97 + (v - 26)
      [] v >= 52 /\ v < 62 -> 48 + (v - 52)
      [] v = 62 -> 45
      [] v = 63 -> 95
      [] OTHER -> 61

RECURSIVE urlsafe_b64encode(_)
\* base64.urlsafe_b64encode(bytes).decode("utf-8"): three bytes give four
\* characters; a last group of one or two bytes is padded with '='
urlsafe_b64encode(bytes) ==
    CASE Len(bytes) = 0 -> <<>>
      [] Len(bytes) = 1 ->
            << B64Char(bytes[1] \div 4), B64Char((bytes[1] % 4) * 16),
               B64Char(64), B64Char(64) >>
      [] Len(bytes) = 2 ->
            LET n == bytes[1] * 256 + bytes[2] IN
            << B64Char(n \div 1024), B64Char((n \div 16) % 64),
               B64Char((n % 16) * 4), B64Char(64) >>
      [] OTHER ->
            LET n == bytes[1] * 65536 + bytes[2] * 256 + bytes[3] IN
            << B64Char(n \div 262144), B64Char((n \div 4096) % 64),
               B64Char((n \div 64) % 64), B64Char(n % 64) >>
            \o urlsafe_b64encode(SubSeq(bytes, 4, Len(bytes)))

\* str.encode(): UTF-8 of ASCII text is the character codes themselves
Utf8(text) == text

\* `base64.urlsafe_b64encode(document["Question"].encode()).decode("utf-8")`
DocId(document) == urlsafe_b64encode(Utf8(document["Question"]))

\* the embedding provider's vector for a text (opaque)
Embedding(text) == [of |-> text]

\* A slip the code could have made: collection.add, which leaves a stored id as
\* it is.
Upsert_add_only(coll, id, record) ==
    IF id \in DOMAIN coll THEN coll ELSE (id :> record) @@ coll

\* collection.upsert(ids=[id], ...): the record replaces what the id held
Upsert(coll, id, record) == (id :> record) @@ coll

MaxQuestionLen == 3

MaxAdds == 2

\* 'Q' and '1'
QuestionAlphabet == {81, 49}

CacheQuestions ==
    UNION { [1..n -> QuestionAlphabet] : n \in 1..MaxQuestionLen }

Documents ==
    { ("Question" :> q) @@ ("Answer" :> a) : q \in CacheQuestions, a \in {"A1", "A2"} }

\* vector_fields: source field -> embedding field
VectorFieldChoices ==
    { ("Question" :> "QuestionEmbedding"), ("Summary" :> "SummaryEmbedding") }

CacheInit ==
    /\ collection = Empty
    /\ clock = 0
    /\ adds = <<>>
    /\ last_call = [op |-> "none"]
    /\ last_result = [returned |-> FALSE, entries |-> <<>>]

\* `for field in vector_fields.keys(): if field not in document.keys(): return`
MissingField(document, vector_fields) ==
    \E field \in DOMAIN vector_fields : field \notin DOMAIN document

\* `document["DateLastModified"] = datetime.now(timezone.utc).isoformat()`
Stamped(document, now) == ("DateLastModified" :> now) @@ document

\* A slip the code could have made: the stamp ahead of the validation loop.
DocumentAfter_stamp_first(document, vector_fields, now) == Stamped(document, now)

\* the caller's dict when the call ends: the stamp is written in place, after
\* the validation loop
DocumentAfter(document, vector_fields, now) ==
    IF MissingField(document, vector_fields) THEN document
    ELSE Stamped(document, now)

\* what the caller of add_entry_to_index can observe when the call ends
AddOutcome(raised, document_after, embedding_requests) ==
    [returned |-> ~raised, raised |-> raised,
     stamped |-> "DateLastModified" \in DOMAIN document_after,
     embedding_requests |-> embedding_requests]

\* One add_entry_to_index call, start to end (calls are sequential here).
AddEntryToIndex ==
    /\ UNCHANGED <<stream_vars, strategy_vars, isolation_vars, inflight, tracker_vars, cls_vars, router_vars>>
    /\ clock < MaxAdds
    /\ \E document \in Documents, vector_fields \in VectorFieldChoices,
          embedding_request \in {"ok", "raises"} :
          LET after == DocumentAfter(document, vector_fields, clock + 1) IN
          IF MissingField(document, vector_fields)
          THEN \* logging.error(...); return
               /\ UNCHANGED <<collection, clock, adds>>
               /\ last_call' = [op |-> "add_entry_to_index", missing_field |-> TRUE,
                                embedding_request |-> "none"]
               /\ last_result' = AddOutcome(FALSE, after, 0)
          ELSE LET fields_to_embed == [f \in DOMAIN vector_fields |-> document[f]]
                   stamped  == Stamped(document, clock + 1)
                   metadata == Without(stamped, Values(vector_fields))
                   first    == CHOOSE f \in DOMAIN vector_fields : TRUE
                   record   == [embedding |-> Embedding(fields_to_embed[first]),
                                metadata  |-> metadata,
                                document  |-> stamped["Question"]]
               IN  /\ clock' = clock + 1
                   /\ last_call' = [op |-> "add_entry_to_index",
                                    missing_field |-> FALSE,
                                    embedding_request |-> embedding_request]
                   \* the except branch logs and falls off the end of the
                   \* function: the caller gets None either way
                   /\ last_result' = AddOutcome(FALSE, after, 1)
                   /\ IF embedding_request = "raises"
                      THEN \* except Exception: logged, nothing stored
                           UNCHANGED <<collection, adds>>
                      ELSE /\ collection' = Upsert(collection, DocId(stamped), record)
                           /\ adds' = Append(adds, stamped)

(***************************************************************************)
(* ChromaSearchConnector: run_ai_search_query and get_entity_schemas       *)
(*                                                                         *)
(* Scores, distances and minimum_score are counted in eighths: 1.0 is 8,   *)
(* minimum_score=1.5 is 12, minimum_score=5 is 40.                         *)
(***************************************************************************)

\* "Ab", "b" and "ab"
EntityAb == <<65, 98>>

EntityB == <<98>>

LowerAb == <<97, 98>>

\* relationship strings "s.t.Ab-s.t.b" and "x.s.t"
RelFull == << <<115,46,116,46,65,98,45,115,46,116,46,98>>, <<120,46,115,46,116>> >>

\* The fields an entry stored in the schema collection may carry besides
\* Entity and FQN: none, all present but empty, all present and filled.
Shapes ==
    { Empty,
      ("CompleteEntityRelationshipsGraph" :> <<>>) @@ ("SampleValues" :> <<>>)
          @@ ("EntityRelationships" :> <<>>),
      ("CompleteEntityRelationshipsGraph" :> RelFull) @@ ("SampleValues" :> <<"v">>)
          @@ ("EntityRelationships" :> <<"r">>) }

StoredEntries ==
    { shape @@ entity @@ fqn :
        shape \in Shapes,
        entity \in { ("Entity" :> EntityAb), ("Entity" :> EntityB) },
        fqn \in { Empty, ("FQN" :> "db.schema.table") } }
    \cup { ("FQN" :> "db.schema.table") }       \* an entry with no Entity key

\* cosine distances 0, 0.625, 0.75 and 2.0 (scores 1.0, 0.375, 0.25 and -1.0)
Distances == {0, 5, 6, 16}

MaxResults == 2

\* What collection.query(n_results=top) can answer: at most `top` stored
\* entries with their distances, nearest first.
QueryResponses(top) ==
    { r \in UNION { [1..n -> [metadata : StoredEntries, distance : Distances]] :
                      n \in 0..(IF top < MaxResults THEN top ELSE MaxResults) } :
        \A i \in 1..(Len(r) - 1) : r[i].distance <= r[i + 1].distance }

\* A slip the code could have made: dropping an entry whose score equals the
\* threshold.
BelowMinimum_inclusive(score, minimum_score) ==
    minimum_score # <<>> /\ 4 * score <= minimum_score[1]

\* `minimum_score is not None and score < (minimum_score / 4.0)`; the division
\* by 4.0 is exact in binary floating point, so this is 4 * score < minimum_score.
\* minimum_score is <<>> for None and <<m>> for m.
BelowMinimum(score, minimum_score) ==
    minimum_score # <<>> /\ 4 * score < minimum_score[1]

RECURSIVE CombineResults_prepending(_, _, _, _)
\* A slip the code could have made: insert(0, result_item) for append.
CombineResults_prepending(results, i, include_scores, minimum_score) ==
    IF i > Len(results) THEN <<>>
    ELSE LET score == 8 - results[i].distance
             rest  == CombineResults_prepending(results, i + 1, include_scores,
                                                minimum_score)
             result_item == IF include_scores
                            THEN ("@search.score" :> score) @@ results[i].metadata
                            ELSE results[i].metadata
         IN  IF minimum_score # <<>> /\ 4 * score < minimum_score[1] THEN rest
             ELSE rest \o <<result_item>>

RECURSIVE CombineResults(_, _, _, _)
\* the loop over results['metadatas'][0], from index i on
CombineResults(results, i, include_scores, minimum_score) ==
    IF i > Len(results) THEN <<>>
    ELSE LET score == 8 - results[i].distance
             rest  == CombineResults(results, i + 1, include_scores, minimum_score)
             result_item == IF include_scores
                            THEN ("@search.score" :> score) @@ results[i].metadata
                            ELSE results[i].metadata
         IN  IF BelowMinimum(score, minimum_score) THEN rest
             ELSE <<result_item>> \o rest

run_ai_search_query(results, include_scores, minimum_score) ==
    CombineResults(results, 1, include_scores, minimum_score)

RECURSIVE Join(_, _)
\* sep.join(parts)
Join(sep, parts) ==
    IF parts = <<>> THEN <<>>
    ELSE IF Len(parts) = 1 THEN parts[1]
    ELSE parts[1] \o sep \o Join(sep, Tail(parts))

RECURSIVE Replace(_, _)
\* x.replace(old, ""): every occurrence of old, left to right, is removed
Replace(x, old) ==
    IF old = <<>> \/ Len(x) < Len(old) THEN x
    ELSE IF StartsWith(x, old) THEN Replace(SubSeq(x, Len(old) + 1, Len(x)), old)
    ELSE <<x[1]>> \o Replace(Tail(x), old)

\* schema.get(key): None is written <<>> where it is only asked `is not None`
Has(schema, key) == key \in DOMAIN schema

\* A slip the code could have made: FQN is left in the entry.
DropFQN_kept(schema) == schema

\* `if "FQN" in schema: del schema["FQN"]`
DropFQN(schema) == IF Has(schema, "FQN") THEN Del(schema, "FQN") ELSE schema

\* the CompleteEntityRelationshipsGraph step
TrimGraph(schema, fqn_to_trim) ==
    LET key == "CompleteEntityRelationshipsGraph" IN
    IF Has(schema, key) /\ Len(schema[key]) = 0 THEN Del(schema, key)
    ELSE IF Has(schema, key) /\ Len(schema[key]) > 0
    THEN [schema EXCEPT ![key] = [j \in 1..Len(schema[key]) |->
                                     Replace(schema[key][j], fqn_to_trim)]]
    ELSE schema

\* `if schema.get(key) is not None and len(schema.get(key, [])) == 0: del schema[key]`
DropIfEmpty(schema, key) ==
    IF Has(schema, key) /\ Len(schema[key]) = 0 THEN Del(schema, key) ELSE schema

\* A slip the code could have made: comparing the Entity name as stored.
Excluded_case_sensitive(schema, excluded_entities) ==
    (IF Has(schema, "Entity") THEN schema["Entity"] ELSE <<>>)
        \in { excluded_entities[k] : k \in DOMAIN excluded_entities }

\* `schema.get("Entity", "").lower() in excluded_entities`
Excluded(schema, excluded_entities) ==
    Lower(IF Has(schema, "Entity") THEN schema["Entity"] ELSE <<>>)
        \in { excluded_entities[k] : k \in DOMAIN excluded_entities }

RECURSIVE FilterSchemas(_, _, _, _)
\* the loop over schemas, from index i on
FilterSchemas(schemas, i, excluded_entities, fqn_to_trim) ==
    IF i > Len(schemas) THEN <<>>
    ELSE LET s1 == DropFQN(schemas[i])
             s2 == TrimGraph(s1, fqn_to_trim)
             s3 == DropIfEmpty(s2, "SampleValues")
             s4 == DropIfEmpty(s3, "EntityRelationships")
             rest == FilterSchemas(schemas, i + 1, excluded_entities, fqn_to_trim)
         IN  IF ~Excluded(s4, excluded_entities) THEN <<s4>> \o rest ELSE rest

\* `top=50` and `minimum_score=5` of get_column_values
ColumnValueTop == 50

ColumnValueMinimumScore == 40

\* A slip the code could have made: the search without its minimum_score.
get_column_values_no_minimum(results) == run_ai_search_query(results, FALSE, <<>>)

get_column_values(results) ==
    run_ai_search_query(results, FALSE, <<ColumnValueMinimumScore>>)

\* `top=3` and `minimum_score=1.5` of get_entity_schemas
EntitySchemaTop == 3

EntitySchemaMinimumScore == 12

\* A slip the code could have made: the clean-up loop run on every call.
get_entity_schemas_always_filtering(results, excluded_entities, engine_specific_fields) ==
    FilterSchemas(run_ai_search_query(results, FALSE, <<EntitySchemaMinimumScore>>),
                  1, excluded_entities, Join(<<46>>, engine_specific_fields))

get_entity_schemas(results, excluded_entities, engine_specific_fields) ==
    LET schemas == run_ai_search_query(results, FALSE, <<EntitySchemaMinimumScore>>)
        fqn_to_trim == Join(<<46>>, engine_specific_fields)
    IN  IF Len(excluded_entities) = 0 THEN schemas
        ELSE FilterSchemas(schemas, 1, excluded_entities, fqn_to_trim)

\* minimum_score values tried: None, 0, 0.25 (threshold 0.0625), 1.0, 1.5, 1.625
MinimumScores == {<<>>, <<0>>, <<2>>, <<8>>, <<12>>, <<13>>}

ExcludedChoices == { <<>>, <<LowerAb>>, <<EntityAb, EntityB>> }

\* engine_specific_fields, stringified: none, or "s" and "t"
EngineFieldChoices == { <<>>, << <<115>>, <<116>> >> }

\* The search harness starts with the arguments of one call and the answer the
\* collection will give it.
SearchInit ==
    /\ collection = Empty
    /\ clock = 0
    /\ adds = <<>>
    /\ \/ \E r \in QueryResponses(MaxResults), inc \in BOOLEAN, m \in MinimumScores :
             last_call = [op |-> "run_ai_search_query", results |-> r,
                          include_scores |-> inc, minimum_score |-> m]
       \/ \E r \in QueryResponses(EntitySchemaTop), ex \in ExcludedChoices,
             ef \in EngineFieldChoices :
             last_call = [op |-> "get_entity_schemas", results |-> r,
                          excluded_entities |-> ex, engine_specific_fields |-> ef]
       \/ \E r \in QueryResponses(ColumnValueTop) :
             last_call = [op |-> "get_column_values", results |-> r]
    /\ last_result = [returned |-> FALSE, entries |-> <<>>]

RunAiSearchQuery ==
    /\ UNCHANGED <<stream_vars, strategy_vars, isolation_vars, inflight, tracker_vars, cls_vars, router_vars, collection, clock, adds, last_call>>
    /\ last_call.op = "run_ai_search_query"
    /\ ~last_result.returned
    /\ last_result' =
          [returned |-> TRUE,
           entries  |-> run_ai_search_query(last_call.results, last_call.include_scores,
                                            last_call.minimum_score)]

GetEntitySchemas ==
    /\ UNCHANGED <<stream_vars, strategy_vars, isolation_vars, inflight, tracker_vars, cls_vars, router_vars, collection, clock, adds, last_call>>
    /\ last_call.op = "get_entity_schemas"
    /\ ~last_result.returned
    /\ last_result' =
          [returned |-> TRUE,
           entries  |-> get_entity_schemas(last_call.results,
                                           last_call.excluded_entities,
                                           last_call.engine_specific_fields)]

GetColumnValues ==
    /\ UNCHANGED <<stream_vars, strategy_vars, isolation_vars, inflight, tracker_vars,
                   cls_vars, router_vars, collection, clock, adds, last_call>>
    /\ last_call.op = "get_column_values"
    /\ ~last_result.returned
    /\ last_result' =
          [returned |-> TRUE, entries |-> get_column_values(last_call.results)]

(***************************************************************************)
(* process_autogen_sync: run_autogen() reading the agent stream            *)
(*                                                                         *)
(* An event is a payload object: a function from the attributes it has to  *)
(* their values, so that hasattr(x, "a") is "a" \in DOMAIN x.              *)
(***************************************************************************)

\* disambiguation requests: two complete ones, one with an empty question and
\* no choice, one without the user_choices attribute
RequestQ1 == [assistant_question |-> "q1", user_choices |-> <<"c1", "c2">>]

RequestQ2 == [assistant_question |-> "q2", user_choices |-> <<"c3">>]

RequestBlank == [assistant_question |-> "", user_choices |-> <<>>]

RequestNoChoices == ("assistant_question" :> "q3")

\* {sql_query, sql_rows} source pairs
SourceOne == [sql_query |-> "sql1", sql_rows |-> <<"row1">>]

SourceTwo == [sql_query |-> "sql2", sql_rows |-> <<>>]

\* processing_update events, and an object without a payload_type
UpdateEvents ==
    { [payload_type |-> "processing_update", body |-> [message |-> "working"]],
      ("body" :> [message |-> "working"]) }

DisambiguationEvents ==
    { [payload_type |-> "disambiguation_requests",
       body |-> [disambiguation_requests |-> reqs]] :
         reqs \in { <<RequestQ1, RequestQ2>>, <<RequestBlank, RequestQ1>>,
                    <<RequestNoChoices, RequestQ2>> } }
    \cup { [payload_type |-> "disambiguation_requests", body |-> Empty] }

AnswerEvents ==
    { [payload_type |-> "answer_with_sources", body |-> b] :
         b \in { [answer |-> "", sources |-> <<>>],
                 [answer |-> "a1", sources |-> <<SourceOne>>,
                  follow_up_suggestions |-> <<"f1">>],
                 [answer |-> "a2", sources |-> <<SourceOne, SourceTwo>>],
                 ("sources" :> <<SourceTwo>>) } }

\* events of another payload type, with and without a body
OtherEvents ==
    { [payload_type |-> "user_message", body |-> [user_message |-> "hello"]],
      ("payload_type" :> "user_message") }

Events == UpdateEvents \cup DisambiguationEvents \cup AnswerEvents \cup OtherEvents

MaxStream == 3

\* what process_user_message can yield before it ends
Streams == UNION { [1..n -> Events] : n \in 0..MaxStream }

\* A slip the code could have made: stopping at a processing_update event too.
StopsLoop_on_update(response_payload) == Has(response_payload, "payload_type")

\* the `if` inside the `async for`: the event stops the loop
StopsLoop(response_payload) ==
    /\ Has(response_payload, "payload_type")
    /\ response_payload.payload_type # "processing_update"

RECURSIVE ClarificationQuestions(_, _)
\* `if hasattr(req, 'assistant_question') and req.assistant_question: append`
ClarificationQuestions(reqs, i) ==
    IF i > Len(reqs) THEN <<>>
    ELSE (IF Has(reqs[i], "assistant_question") /\ reqs[i].assistant_question # ""
          THEN <<reqs[i].assistant_question>> ELSE <<>>)
         \o ClarificationQuestions(reqs, i + 1)

RECURSIVE UserChoices_one_each(_, _)
\* A slip the code could have made: append(req.user_choices[0]) for extend.
UserChoices_one_each(reqs, i) ==
    IF i > Len(reqs) THEN <<>>
    ELSE (IF Has(reqs[i], "user_choices") /\ reqs[i].user_choices # <<>>
          THEN <<reqs[i].user_choices[1]>> ELSE <<>>)
         \o UserChoices_one_each(reqs, i + 1)

RECURSIVE UserChoices(_, _)
\* `if hasattr(req, 'user_choices') and req.user_choices: extend`
UserChoices(reqs, i) ==
    IF i > Len(reqs) THEN <<>>
    ELSE (IF Has(reqs[i], "user_choices") /\ reqs[i].user_choices # <<>>
          THEN reqs[i].user_choices ELSE <<>>)
         \o UserChoices(reqs, i + 1)

\* the value the loop over sources leaves in a local assigned from every
\* source that has the attribute
LastOf(sources, key, default) ==
    LET having == { i \in DOMAIN sources : Has(sources[i], key) }
    IN  IF having = {} THEN default
        ELSE sources[CHOOSE i \in having : \A j \in having : j <= i][key]

\* the `except Exception` result of run_autogen
AutogenFailure ==
    [method |-> "AutoGen Multi-Agent", success |-> FALSE,
     error |-> "AutoGen processing failed: error"]

\* A slip the code could have made: reporting an ended stream as an answer.
StreamEnded_as_answer ==
    [method |-> "AutoGen Multi-Agent", response_type |-> "unknown",
     answer |-> "None", sql_query |-> None, results |-> <<>>, success |-> TRUE,
     explanation |-> "AutoGen processing completed (type: unknown)"]

\* `if not response_data: return {...}`
NoResponseReceived ==
    [method |-> "AutoGen Multi-Agent", success |-> FALSE,
     error |-> "No response received from AutoGen system"]

\* run_autogen after the loop, with response_data set: the dict it returns
ParseResponse(event) ==
    LET response_type == IF Has(event, "payload_type") THEN event.payload_type
                         ELSE "unknown"
    IN  IF response_type = "disambiguation_requests"
        THEN IF ~Has(event, "body") THEN AutogenFailure    \* AttributeError
             ELSE LET disambiguation_requests ==
                          IF Has(event.body, "disambiguation_requests")
                          THEN event.body.disambiguation_requests ELSE <<>>
                  IN  [method |-> "AutoGen Multi-Agent",
                       response_type |-> "disambiguation",
                       clarification_questions |->
                           ClarificationQuestions(disambiguation_requests, 1),
                       user_choices |-> UserChoices(disambiguation_requests, 1),
                       success |-> TRUE,
                       explanation |-> "AutoGen is requesting clarification"]
        ELSE IF response_type = "answer_with_sources" \/ Has(event, "body")
        THEN IF ~Has(event, "body") THEN AutogenFailure    \* AttributeError
             ELSE LET sources == IF Has(event.body, "sources")
                                 THEN event.body.sources ELSE <<>>
                      complete == \A i \in DOMAIN sources :
                                     Has(sources[i], "sql_query")
                                     /\ Has(sources[i], "sql_rows")
                  IN  IF ~complete THEN AutogenFailure     \* AttributeError
                      ELSE
                      [method |-> "AutoGen Multi-Agent",
                       response_type |-> "answer",
                       answer |->
                           IF Has(event, "answer") /\ event.answer # ""
                           THEN event.answer
                           ELSE IF Has(event.body, "answer") THEN event.body.answer
                           ELSE "Analysis completed successfully",
                       sql_query |-> LastOf(sources, "sql_query", None),
                       results |-> LastOf(sources, "sql_rows", <<>>),
                       follow_up_suggestions |->
                           IF Has(event.body, "follow_up_suggestions")
                           THEN event.body.follow_up_suggestions ELSE <<>>,
                       sources |-> [i \in DOMAIN sources |->
                                      [sql_query |-> sources[i].sql_query,
                                       sql_rows |-> sources[i].sql_rows]],
                       success |-> TRUE,
                       explanation |-> "AutoGen multi-agent processing completed"]
        ELSE [method |-> "AutoGen Multi-Agent", response_type |-> "unknown",
              answer |-> "str(response_data)", sql_query |-> None,
              results |-> <<>>, success |-> TRUE,
              explanation |-> "AutoGen processing completed"]

StreamInit ==
    /\ stream \in Streams
    /\ stream_pc = "iterating"
    /\ consumed = 0
    /\ response_data = <<>>
    /\ autogen_result = NoResponse

\* One turn of the `async for`: the stream yields its next event; the loop
\* keeps it and breaks, or goes on.
ReadEvent ==
    /\ UNCHANGED <<cls_vars, router_vars, retrieval_vars, tracker_vars, strategy_vars,
                   isolation_vars, inflight>>
    /\ stream_pc = "iterating"
    /\ consumed < Len(stream)
    /\ consumed' = consumed + 1
    /\ IF StopsLoop(stream[consumed + 1])
       THEN /\ response_data' = <<stream[consumed + 1]>>
            /\ stream_pc' = "parsing"
       ELSE /\ UNCHANGED response_data
            /\ stream_pc' = "iterating"
    /\ UNCHANGED <<stream, autogen_result>>

\* The stream ends (StopAsyncIteration) with the loop still running.
StreamEnds ==
    /\ UNCHANGED <<cls_vars, router_vars, retrieval_vars, tracker_vars, strategy_vars,
                   isolation_vars, inflight>>
    /\ stream_pc = "iterating"
    /\ consumed = Len(stream)
    /\ IF response_data = <<>>
       THEN /\ autogen_result' = NoResponseReceived
            /\ stream_pc' = "returned"
       ELSE /\ UNCHANGED autogen_result
            /\ stream_pc' = "parsing"
    /\ UNCHANGED <<stream, consumed, response_data>>

\* process_user_message raises while the loop waits for the next event.
StreamRaises ==
    /\ UNCHANGED <<cls_vars, router_vars, retrieval_vars, tracker_vars, strategy_vars,
                   isolation_vars, inflight>>
    /\ stream_pc = "iterating"
    /\ autogen_result' = AutogenFailure
    /\ stream_pc' = "returned"
    /\ UNCHANGED <<stream, consumed, response_data>>

\* The code after the loop, for a response_data that is set.
ReturnParsed ==
    /\ UNCHANGED <<cls_vars, router_vars, retrieval_vars, tracker_vars, strategy_vars,
                   isolation_vars, inflight>>
    /\ stream_pc = "parsing"
    /\ autogen_result' = ParseResponse(response_data[1])
    /\ stream_pc' = "returned"
    /\ UNCHANGED <<stream, consumed, response_data>>

StreamNext ==
    \/ ReadEvent
    \/ StreamEnds
    \/ StreamRaises
    \/ ReturnParsed

(***************************************************************************)
(* Text2SQLMLflowTracker: log_user_feedback and get_experiment_stats       *)
(***************************************************************************)

\* the ids of the runs in the store
RunIds(store) == { store[i].run_id : i \in DOMAIN store }

\* What the MLflow store does during one log_user_feedback call: accepts the
\* calls, raises in start_run, or raises in log_artifact.  (It also raises, in
\* start_run, for a run it does not serve, and in log_param, for a key that is
\* already logged with another value.)
FeedbackOutcomes == {"ok", "start_run_raises", "log_artifact_raises"}

\* mlflow.log_param on a run: parameters are immutable, so a key already logged
\* with another value raises and leaves the run as it was
LogParam(run, key, value) ==
    IF key \in DOMAIN run.params /\ run.params[key] # value
    THEN [raised |-> TRUE, run |-> run]
    ELSE [raised |-> FALSE,
          run |-> [run EXCEPT !.params = (key :> value) @@ run.params]]

\* A slip the code could have made: logging the rating under the key "success".
RatingMetric_as_success(user_rating) == ("success" :> user_rating)

\* `mlflow.log_metric("user_rating", user_rating)`
RatingMetric(user_rating) == ("user_rating" :> user_rating)

\* The body of `with mlflow.start_run(run_id=run_id):` applied to the run it
\* resumed, up to the first call that raises; leaving the block ends the run as
\* FINISHED, or as FAILED when an exception leaves it.
FeedbackOnRun(run, user_rating, user_comment, user_id, now, mlflow) ==
    LET rated   == [run EXCEPT !.metrics = RatingMetric(user_rating) @@ run.metrics]
        comment == LogParam(rated, "user_comment", user_comment)
        user    == IF comment.raised THEN comment
                   ELSE LogParam(comment.run, "user_id",
                                 IF user_id \in {None, ""} THEN "anonymous"
                                 ELSE user_id)
        stamp   == IF user.raised THEN user
                   ELSE LogParam(user.run, "feedback_timestamp", now)
        raised  == stamp.raised \/ mlflow = "log_artifact_raises"
    IN  [stamp.run EXCEPT !.status = IF raised THEN "FAILED" ELSE "FINISHED"]

\* the run mlflow.start_run(run_id=None) creates
FreshRun(run_id) ==
    [run_id |-> run_id, params |-> Empty, metrics |-> Empty, status |-> "RUNNING"]

\* log_user_feedback: the store it leaves.  `not_served` are the ids of runs
\* the store does not serve yet; start_run raises for them and for unknown ids,
\* and the method's `except Exception` swallows every exception.
log_user_feedback(store, not_served, run_id, user_rating, user_comment, user_id, now, mlflow) ==
    IF mlflow = "start_run_raises" THEN store
    ELSE IF run_id = NoRunId
    THEN Append(store, FeedbackOnRun(FreshRun(Len(store) + 1), user_rating,
                                     user_comment, user_id, now, mlflow))
    ELSE IF run_id \notin RunIds(store) \ not_served THEN store
    ELSE [i \in DOMAIN store |->
            IF store[i].run_id = run_id
            THEN FeedbackOnRun(store[i], user_rating, user_comment, user_id, now,
                               mlflow)
            ELSE store[i]]

\* the columns of the DataFrame mlflow.search_runs returns: one per metric key
\* that some run has
MetricColumns(runs) == UNION { DOMAIN runs[i].metrics : i \in DOMAIN runs }

\* len(runs[runs['metrics.<key>'] == value])
CountMetric(runs, key, value) ==
    Cardinality({ i \in DOMAIN runs :
                    key \in DOMAIN runs[i].metrics /\ runs[i].metrics[key] = value })

RECURSIVE SumMetric(_, _, _)
SumMetric(runs, key, i) ==
    IF i > Len(runs) THEN 0
    ELSE (IF key \in DOMAIN runs[i].metrics THEN runs[i].metrics[key] ELSE 0)
         + SumMetric(runs, key, i + 1)

\* the metric columns get_experiment_stats reads; reading a column the
\* DataFrame does not have raises KeyError
StatsColumns ==
    {"success", "execution_time_seconds", "pattern_match_used", "ai_powered_used",
     "autogen_used", "user_rating"}

\* `len(runs[runs['metrics.success'] == 1.0])`
SuccessfulRuns(runs) == CountMetric(runs, "success", 1)

\* get_experiment_stats over the runs the store serves; {} is Empty, and the
\* mean rating is kept as the pair sum, count.
get_experiment_stats(runs) ==
    IF runs = <<>> THEN ("total_runs" :> 0)
    ELSE IF ~(StatsColumns \subseteq MetricColumns(runs)) THEN Empty  \* KeyError
    ELSE LET rated == { i \in DOMAIN runs : "user_rating" \in DOMAIN runs[i].metrics }
             base  == [total_runs |-> Len(runs),
                       successful_runs |-> SuccessfulRuns(runs),
                       approaches_used |->
                          [pattern_match |-> CountMetric(runs, "pattern_match_used", 1),
                           ai_powered |-> CountMetric(runs, "ai_powered_used", 1),
                           autogen |-> CountMetric(runs, "autogen_used", 1)]]
         IN  IF rated = {} THEN base
             ELSE base @@ [average_user_rating |->
                              <<SumMetric(runs, "user_rating", 1), Cardinality(rated)>>,
                           total_rated_runs |-> Cardinality(rated)]

\* the sub-sequence of the runs the store serves
RECURSIVE Served(_, _, _)
Served(store, not_served, i) ==
    IF i > Len(store) THEN <<>>
    ELSE (IF store[i].run_id \in not_served THEN <<>> ELSE <<store[i]>>)
         \o Served(store, not_served, i + 1)

(***************************************************************************)
(* The tracker called directly (as the feedback test script does): any     *)
(* sequence of log_query_experiment and log_user_feedback calls, ended by  *)
(* one get_experiment_stats call.                                          *)
(***************************************************************************)

MaxRuns == 1

MaxFeedbacks == 2

\* the (approach, result) pairs handed to log_query_experiment
TrackerQueries ==
    { [approach |-> "Pattern Match",
       result |-> Resp("Pattern Match", TRUE, "SELECT 1", <<"row">>, None, None)],
      [approach |-> "AI-Powered",
       result |-> Resp("AI-Powered", FALSE, None, <<>>, "completion error", None)],
      [approach |-> "AutoGen Multi-Agent",
       result |-> Resp("AutoGen Multi-Agent", TRUE, None, <<>>, None, "answer")] }

\* the question of every direct call: "Q"
TrackerQuestion == <<81>>

FeedbackComments == {"", "good"}

\* the (rating, comment) pairs of the direct log_user_feedback calls
TrackerFeedbacks ==
    { [user_rating |-> 1, user_comment |-> "good"],
      [user_rating |-> 0, user_comment |-> ""] }

NoStats == [called |-> FALSE, value |-> Empty, runs |-> <<>>]

\* the feedback_timestamp of the next log_user_feedback call
Now == Len(feedback_calls) + 1

\* What the store (a directory that outlives the session) may hold from
\* earlier sessions: one run of each approach, the first of them rated.
SeededStore ==
    LET one(n, approach) ==
            log_query_experiment(
                n, TrackerQuestion, approach,
                (CHOOSE call \in TrackerQueries : call.approach = approach).result,
                "ok").runs
        logged == one(1, "Pattern Match") \o one(2, "AI-Powered")
                  \o one(3, "AutoGen Multi-Agent")
    IN  log_user_feedback(logged, {}, 1, 1, "good", "test_user", 0, "ok")

TrackerInit ==
    /\ hidden = {}
    /\ feedback_calls = <<>>
    /\ stats = NoStats

\* One log_query_experiment call.  The store may take a while before it serves
\* the new run to readers.
TrackerLogQuery ==
    /\ UNCHANGED <<cls_vars, retrieval_vars, stream_vars, strategy_vars, isolation_vars, inflight>>
    /\ pc = "tracker"
    /\ queries < MaxRuns
    /\ \E call \in TrackerQueries, mlflow \in MlflowOutcomes, late \in BOOLEAN :
          LET out == log_query_experiment(Len(ledger) + 1, TrackerQuestion,
                                          call.approach, call.result, mlflow) IN
          /\ late => out.runs # <<>>
          /\ ledger' = ledger \o out.runs
          /\ hidden' = IF late THEN hidden \cup {out.run_id} ELSE hidden
          /\ current_run_id' = out.run_id
    /\ queries' = queries + 1
    /\ UNCHANGED <<pc, systems, processing_mode, final_question, mode, invoked,
                   worker, timed_out, response, shown, log_calls, runs_before,
                   feedback_calls, stats>>

\* The store starts serving a run it holds.
BecomesVisible ==
    /\ UNCHANGED <<cls_vars, retrieval_vars, stream_vars, strategy_vars, isolation_vars, inflight, router_vars>>
    /\ \E run_id \in hidden : hidden' = hidden \ {run_id}
    /\ UNCHANGED <<feedback_calls, stats>>

\* One log_user_feedback call for the id of a run logged before.
TrackerFeedback ==
    /\ UNCHANGED <<cls_vars, retrieval_vars, stream_vars, strategy_vars, isolation_vars, inflight>>
    /\ pc = "tracker"
    /\ Len(feedback_calls) < MaxFeedbacks
    /\ \E run_id \in RunIds(ledger), fb \in TrackerFeedbacks,
          mlflow \in FeedbackOutcomes :
          /\ ledger' = log_user_feedback(ledger, hidden, run_id, fb.user_rating,
                                         fb.user_comment, "test_user", Now, mlflow)
          /\ feedback_calls' =
                Append(feedback_calls,
                       [run_id |-> run_id, user_rating |-> fb.user_rating,
                        user_comment |-> fb.user_comment, now |-> Now,
                        mlflow |-> mlflow, served |-> run_id \notin hidden,
                        latest |-> ledger[Len(ledger)].run_id])
    /\ UNCHANGED <<pc, systems, processing_mode, final_question, mode, invoked,
                   worker, timed_out, response, shown, log_calls, runs_before,
                   current_run_id, queries, hidden, stats>>

\* The get_experiment_stats call that ends the sequence.
GetExperimentStats ==
    /\ UNCHANGED <<cls_vars, retrieval_vars, stream_vars, strategy_vars, isolation_vars, inflight>>
    /\ pc = "tracker"
    /\ stats' = [called |-> TRUE,
                 value  |-> get_experiment_stats(Served(ledger, hidden, 1)),
                 runs   |-> Served(ledger, hidden, 1)]
    /\ pc' = "reported"
    /\ UNCHANGED <<systems, processing_mode, final_question, mode, invoked,
                   worker, timed_out, response, shown, ledger, log_calls,
                   runs_before, current_run_id, queries, hidden, feedback_calls>>

TrackerNext ==
    \/ TrackerLogQuery
    \/ BecomesVisible
    \/ TrackerFeedback
    \/ GetExperimentStats

(***************************************************************************)
(* main(): the "Process Query" handler with its feedback section.  The     *)
(* processor's outcome is an input here, and so is what                    *)
(* st.button("Submit Feedback") returns.                                   *)
(***************************************************************************)

MaxSessionQueries == 2

\* responses unified_query_processor hands back: a pattern match and the
\* fallback failure
SessionResponses ==
    { process_pattern_match(<<84, 111, 116, 97, 108, 32, 83, 65, 76, 69, 83>>, "rows"),
      Fallback("AutoGen Multi-Agent") }

RatingOptions == {"Select rating...", "Helpful", "Not helpful"}

\* A slip the code could have made: rating the first run of the store.
FeedbackTarget_first_run(session_run_id) == 1

\* `run_id=st.session_state.current_run_id`
FeedbackTarget(session_run_id) == session_run_id

\* The handler up to the feedback section: the response arrives,
\* display_unified_results logs it and stores the run id, the result is shown.
SessionProcessQuery ==
    /\ UNCHANGED <<cls_vars, retrieval_vars, stream_vars, strategy_vars, isolation_vars, inflight>>
    /\ pc = "session_idle"
    /\ queries < MaxSessionQueries
    /\ \E r \in SessionResponses, mlflow \in MlflowOutcomes :
          LET out == log_query_experiment(Len(ledger) + 1, TrackerQuestion,
                                          r.method, r, mlflow) IN
          /\ response' = r
          /\ ledger' = ledger \o out.runs
          /\ current_run_id' = out.run_id
          /\ pc' = IF out.run_id # NoRunId THEN "feedback" ELSE "session_idle"
    /\ queries' = queries + 1
    /\ UNCHANGED <<systems, processing_mode, final_question, mode, invoked,
                   worker, timed_out, shown, log_calls, runs_before,
                   hidden, feedback_calls, stats>>

\* "Submit Feedback" is pressed: without a rating the handler warns and goes
\* on; with one it calls log_user_feedback, clears current_run_id and reruns.
SubmitFeedback ==
    /\ UNCHANGED <<cls_vars, retrieval_vars, stream_vars, strategy_vars, isolation_vars, inflight>>
    /\ pc = "feedback"
    /\ \E feedback_rating \in RatingOptions, feedback_comment \in FeedbackComments,
          mlflow \in FeedbackOutcomes :
          IF feedback_rating = "Select rating..."
          THEN UNCHANGED <<ledger, feedback_calls, current_run_id>>
          ELSE LET rating == IF feedback_rating = "Helpful" THEN 1 ELSE 0
                   run_id == FeedbackTarget(current_run_id)
               IN  /\ ledger' = log_user_feedback(ledger, hidden, run_id, rating,
                                                  feedback_comment, "anonymous",
                                                  Now, mlflow)
                   /\ feedback_calls' =
                         Append(feedback_calls,
                                [run_id |-> run_id, user_rating |-> rating,
                                 user_comment |-> feedback_comment, now |-> Now,
                                 mlflow |-> mlflow, served |-> run_id \notin hidden,
                                 latest |-> ledger[Len(ledger)].run_id])
                   /\ current_run_id' = NoRunId
    /\ pc' = "session_idle"
    /\ UNCHANGED <<systems, processing_mode, final_question, mode, invoked,
                   worker, timed_out, response, shown, log_calls, runs_before,
                   queries, hidden, stats>>

\* The handler ends with "Submit Feedback" not pressed.
LeaveFeedback ==
    /\ UNCHANGED <<cls_vars, retrieval_vars, stream_vars, strategy_vars, isolation_vars, inflight, tracker_vars>>
    /\ pc = "feedback"
    /\ pc' = "session_idle"
    /\ UNCHANGED <<systems, processing_mode, final_question, mode, invoked,
                   worker, timed_out, response, shown, ledger, log_calls,
                   runs_before, current_run_id, queries>>

SessionNext ==
    \/ SessionProcessQuery
    \/ SubmitFeedback
    \/ LeaveFeedback

(***************************************************************************)
(* One strategy invocation, request by request: process_pattern_match and  *)
(* process_ai_powered as coroutines that await the database and the LLM.   *)
(***************************************************************************)

\* the providers initialize_systems can leave in systems["llm_provider"] next to
\* a client
Providers == {"claude", "openai"}

StrategyCalls ==
    { [strategy |-> "process_pattern_match", question |-> q, llm_provider |-> None] :
        q \in Questions }
    \cup { [strategy |-> "process_ai_powered", question |-> q, llm_provider |-> lp] :
        q \in Questions, lp \in Providers }

\* a request the coroutine awaits: outcome "pending" until it is answered
Request(kind, sql) == [kind |-> kind, sql |-> sql, outcome |-> "pending"]

Answered(reqs, outcome) == [reqs EXCEPT ![Len(reqs)].outcome = outcome]

StrategyInit ==
    /\ strategy_call \in StrategyCalls
    /\ strategy_pc = "start"
    /\ requests = <<>>
    /\ strategy_result = NoResponse

\* the loop finds no key: `return None`
PatternNoMatch ==
    /\ strategy_pc = "start"
    /\ strategy_call.strategy = "process_pattern_match"
    /\ FirstPattern(Lower(strategy_call.question), 1) = 0
    /\ strategy_result' = process_pattern_match(strategy_call.question, "rows")
    /\ strategy_pc' = "returned"
    /\ UNCHANGED <<strategy_call, requests>>
    /\ UNCHANGED <<cls_vars, router_vars, retrieval_vars, stream_vars, tracker_vars,
                   isolation_vars, inflight>>

\* the loop reaches a key that occurs in the question:
\* `await db_connector.query_execution(sql_query)`
PatternExecutes ==
    /\ strategy_pc = "start"
    /\ strategy_call.strategy = "process_pattern_match"
    /\ LET i == FirstPattern(Lower(strategy_call.question), 1) IN
          /\ i # 0
          /\ requests' = Append(requests,
                                Request("query_execution", PATTERN_QUERIES[i].sql_query))
    /\ strategy_pc' = "awaiting_execution"
    /\ UNCHANGED <<strategy_call, strategy_result>>
    /\ UNCHANGED <<cls_vars, router_vars, retrieval_vars, stream_vars, tracker_vars,
                   isolation_vars, inflight>>

\* query_execution returns or raises; either way the function returns from
\* inside the loop
PatternReturns ==
    /\ strategy_pc = "awaiting_execution"
    /\ strategy_call.strategy = "process_pattern_match"
    /\ \E exec \in ExecOutcomes :
          /\ requests' = Answered(requests, exec)
          /\ strategy_result' = process_pattern_match(strategy_call.question, exec)
    /\ strategy_pc' = "returned"
    /\ UNCHANGED strategy_call
    /\ UNCHANGED <<cls_vars, router_vars, retrieval_vars, stream_vars, tracker_vars,
                   isolation_vars, inflight>>

\* `await llm_client.messages.create(...)` or
\* `await llm_client.chat.completions.create(...)`
AIRequestsCompletion ==
    /\ strategy_pc = "start"
    /\ strategy_call.strategy = "process_ai_powered"
    /\ requests' = Append(requests, Request("completion", None))
    /\ strategy_pc' = "awaiting_completion"
    /\ UNCHANGED <<strategy_call, strategy_result>>
    /\ UNCHANGED <<cls_vars, router_vars, retrieval_vars, stream_vars, tracker_vars,
                   isolation_vars, inflight>>

\* the completion raises: the except branch returns
AICompletionRaises ==
    /\ strategy_pc = "awaiting_completion"
    /\ requests' = Answered(requests, "raises")
    /\ strategy_result' = process_ai_powered(strategy_call.question,
                                             strategy_call.llm_provider, "raises", "rows")
    /\ strategy_pc' = "returned"
    /\ UNCHANGED strategy_call
    /\ UNCHANGED <<cls_vars, router_vars, retrieval_vars, stream_vars, tracker_vars,
                   isolation_vars, inflight>>

\* the completion returns text: clean up, then
\* `await db_connector.query_execution(sql_query)`
AIExecutes ==
    /\ strategy_pc = "awaiting_completion"
    /\ requests' = Append(Answered(requests, "sql"),
                          Request("query_execution", "generated sql"))
    /\ strategy_pc' = "awaiting_execution"
    /\ UNCHANGED <<strategy_call, strategy_result>>
    /\ UNCHANGED <<cls_vars, router_vars, retrieval_vars, stream_vars, tracker_vars,
                   isolation_vars, inflight>>

\* query_execution returns (success dict) or raises (except branch)
AIReturns ==
    /\ strategy_pc = "awaiting_execution"
    /\ strategy_call.strategy = "process_ai_powered"
    /\ \E exec \in ExecOutcomes :
          /\ requests' = Answered(requests, exec)
          /\ strategy_result' = process_ai_powered(strategy_call.question,
                                                   strategy_call.llm_provider, "sql", exec)
    /\ strategy_pc' = "returned"
    /\ UNCHANGED strategy_call
    /\ UNCHANGED <<cls_vars, router_vars, retrieval_vars, stream_vars, tracker_vars,
                   isolation_vars, inflight>>

StrategyNext ==
    \/ PatternNoMatch
    \/ PatternExecutes
    \/ PatternReturns
    \/ AIRequestsCompletion
    \/ AICompletionRaises
    \/ AIExecutes
    \/ AIReturns

(***************************************************************************)
(* process_autogen and process_autogen_sync: the threads, event loops,     *)
(* agent systems and state stores that invocations create and use.         *)
(* Sessions run on threads of their own, so invocations can overlap.       *)
(***************************************************************************)

MaxInvocations == 2

\* an object that lives in the process; `by` is the invocation that created it,
\* 0 for initialize_systems
Object(kind, by) == [kind |-> kind, by |-> by, closed |-> FALSE]

\* allocation: the new object's id is its position
New(objs, kind, by) == Append(objs, Object(kind, by))

\* the objects initialize_systems leaves in systems["autogen_system"]:
\* InMemoryStateStore() is object 1, AutoGenText2Sql(state_store=...) object 2
SharedStore == 1

SharedSystem == 2

\* 0: no such object (yet)
NoObject == 0

\* A slip the code could have made: running the stream on the system that
\* process_autogen was handed.
AgentSystemUsed_shared(autogen_system, fresh_autogen_system) == autogen_system

\* `fresh_autogen_system.process_user_message(...)`: the autogen_system
\* argument of process_autogen is not used
AgentSystemUsed(autogen_system, fresh_autogen_system) == fresh_autogen_system

\* how run_until_complete(run_autogen()) can end: run_autogen returns a result
\* dict, returns the failure dict of its except branch, or lets through what
\* `except Exception` does not catch
RunOutcomes == {"result", "failure", "raised"}

IsolationInit ==
    /\ invocations = <<>>
    /\ objects = New(New(<<>>, "store", 0), "system", 0)

\* process_autogen up to `executor.submit(process_autogen_sync, question)`: the
\* new executor starts a worker thread for the one task it is given
Submit ==
    /\ Len(invocations) < MaxInvocations
    /\ objects' = New(objects, "thread", Len(invocations) + 1)
    /\ invocations' = Append(invocations,
                             [pc |-> "submitted", autogen_system |-> SharedSystem,
                              thread |-> Len(objects) + 1, loop |-> NoObject,
                              store |-> NoObject, system |-> NoObject,
                              outcome |-> "none"])
    /\ UNCHANGED <<cls_vars, router_vars, retrieval_vars, stream_vars, tracker_vars,
                   strategy_vars, inflight>>

\* process_autogen_sync on the worker: load_dotenv, then
\* `loop = asyncio.new_event_loop(); asyncio.set_event_loop(loop)`
WorkerStartsLoop(i) ==
    /\ invocations[i].pc = "submitted"
    /\ objects' = New(objects, "loop", i)
    /\ invocations' = [invocations EXCEPT ![i].pc = "in_loop",
                                          ![i].loop = Len(objects) + 1]
    /\ UNCHANGED <<cls_vars, router_vars, retrieval_vars, stream_vars, tracker_vars,
                   strategy_vars, inflight>>

\* run_autogen: `state_store = InMemoryStateStore()`,
\* `fresh_autogen_system = AutoGenText2Sql(state_store=state_store, ...)`, then
\* the stream is read from the system
WorkerCreatesSystem(i) ==
    /\ invocations[i].pc = "in_loop"
    /\ objects' = New(New(objects, "store", i), "system", i)
    /\ LET used == AgentSystemUsed(invocations[i].autogen_system, Len(objects) + 2)
       IN  invocations' =
               [invocations EXCEPT ![i].pc = "streaming",
                                   ![i].system = used,
                                   ![i].store = IF used = SharedSystem THEN SharedStore
                                                ELSE Len(objects) + 1]
    /\ UNCHANGED <<cls_vars, router_vars, retrieval_vars, stream_vars, tracker_vars,
                   strategy_vars, inflight>>

\* the imports or the constructors raise before a system exists: the except
\* branch of run_autogen returns the failure dict; `finally: loop.close()`
WorkerFailsEarly(i) ==
    /\ invocations[i].pc = "in_loop"
    /\ objects' = [objects EXCEPT ![invocations[i].loop].closed = TRUE]
    /\ invocations' = [invocations EXCEPT ![i].pc = "finished",
                                          ![i].outcome = "failure"]
    /\ UNCHANGED <<cls_vars, router_vars, retrieval_vars, stream_vars, tracker_vars,
                   strategy_vars, inflight>>

\* run_until_complete ends, one way or another; `finally: loop.close()`
RunCompletes(i) ==
    /\ invocations[i].pc = "streaming"
    /\ \E outcome \in RunOutcomes :
          invocations' = [invocations EXCEPT ![i].pc = "finished",
                                             ![i].outcome = outcome]
    /\ objects' = [objects EXCEPT ![invocations[i].loop].closed = TRUE]
    /\ UNCHANGED <<cls_vars, router_vars, retrieval_vars, stream_vars, tracker_vars,
                   strategy_vars, inflight>>

\* the with block is left once the worker is done (shutdown(wait=True)), and
\* process_autogen returns: the worker thread is gone
InvocationEnds(i) ==
    /\ invocations[i].pc = "finished"
    /\ invocations' = [invocations EXCEPT ![i].pc = "ended"]
    /\ objects' = [objects EXCEPT ![invocations[i].thread].closed = TRUE]
    /\ UNCHANGED <<cls_vars, router_vars, retrieval_vars, stream_vars, tracker_vars,
                   strategy_vars, inflight>>

IsolationNext ==
    \/ Submit
    \/ \E i \in 1..Len(invocations) : WorkerStartsLoop(i)
    \/ \E i \in 1..Len(invocations) : WorkerCreatesSystem(i)
    \/ \E i \in 1..Len(invocations) : WorkerFailsEarly(i)
    \/ \E i \in 1..Len(invocations) : RunCompletes(i)
    \/ \E i \in 1..Len(invocations) : InvocationEnds(i)

(***************************************************************************)
(* add_entry_to_index calls that overlap: the coroutines of one event loop *)
(* interleave at `await run_embedding_request(...)`, the only await of the *)
(* function.                                                               *)
(***************************************************************************)

MaxConcurrent == 2

ConcurrentInit ==
    /\ collection = Empty
    /\ clock = 0
    /\ adds = <<>>
    /\ last_call = [op |-> "none"]
    /\ last_result = [returned |-> FALSE, entries |-> <<>>]
    /\ inflight = <<>>

\* a call runs from its start to the await: validation, the stamp, the
\* embedding request sent
CallStarts ==
    /\ Len(inflight) < MaxConcurrent
    /\ \E document \in Documents, vector_fields \in VectorFieldChoices :
          IF MissingField(document, vector_fields)
          THEN \* logging.error(...); return
               /\ inflight' = Append(inflight,
                                     [pc |-> "returned", outcome |-> "missing_field",
                                      document |-> document,
                                      vector_fields |-> vector_fields])
               /\ UNCHANGED clock
          ELSE /\ inflight' = Append(inflight,
                                     [pc |-> "awaiting_embedding", outcome |-> "none",
                                      document |-> Stamped(document, clock + 1),
                                      vector_fields |-> vector_fields])
               /\ clock' = clock + 1
    /\ UNCHANGED <<collection, adds, last_call, last_result>>
    /\ UNCHANGED <<cls_vars, router_vars, stream_vars, tracker_vars, strategy_vars,
                   isolation_vars>>

\* the embedding arrives and the call runs to its end: doc_id, metadata, upsert
CallUpserts(i) ==
    /\ inflight[i].pc = "awaiting_embedding"
    /\ LET document == inflight[i].document
           vector_fields == inflight[i].vector_fields
           first    == CHOOSE f \in DOMAIN vector_fields : TRUE
           record   == [embedding |-> Embedding(document[first]),
                        metadata  |-> Without(document, Values(vector_fields)),
                        document  |-> document["Question"]]
       IN  /\ collection' = Upsert(collection, DocId(document), record)
           /\ adds' = Append(adds, document)
    /\ inflight' = [inflight EXCEPT ![i].pc = "returned", ![i].outcome = "upserted"]
    /\ UNCHANGED <<clock, last_call, last_result>>
    /\ UNCHANGED <<cls_vars, router_vars, stream_vars, tracker_vars, strategy_vars,
                   isolation_vars>>

\* the embedding request raises: logged, the call ends
CallFails(i) ==
    /\ inflight[i].pc = "awaiting_embedding"
    /\ inflight' = [inflight EXCEPT ![i].pc = "returned", ![i].outcome = "logged"]
    /\ UNCHANGED <<collection, clock, adds, last_call, last_result>>
    /\ UNCHANGED <<cls_vars, router_vars, stream_vars, tracker_vars, strategy_vars,
                   isolation_vars>>

ConcurrentNext ==
    \/ CallStarts
    \/ \E i \in 1..Len(inflight) : CallUpserts(i)
    \/ \E i \in 1..Len(inflight) : CallFails(i)

(***************************************************************************)
(* Placeholder state of the parts a specification leaves alone             *)
(***************************************************************************)

RetrievalIdle ==
    /\ collection = Empty
    /\ clock = 0
    /\ adds = <<>>
    /\ last_call = [op |-> "none"]
    /\ last_result = [returned |-> FALSE, entries |-> <<>>]

ClsIdle ==
    /\ cls_question = <<>>
    /\ cls_variant = <<>>
    /\ cls_calls = <<>>

StreamIdle ==
    /\ stream = <<>>
    /\ stream_pc = "off"
    /\ consumed = 0
    /\ response_data = <<>>
    /\ autogen_result = NoResponse

\* the router's variables (but the store) before any query, with main() at
\* position p
RouterParked(p) ==
    /\ pc = p
    /\ systems = [llm_client |-> FALSE, llm_provider |-> None, autogen_system |-> FALSE]
    /\ processing_mode = "Smart Auto"
    /\ final_question = <<>>
    /\ mode = "Smart Auto"
    /\ invoked = <<>>
    /\ worker = NoWorker
    /\ timed_out = FALSE
    /\ response = NoResponse
    /\ shown = <<>>
    /\ log_calls = <<>>
    /\ runs_before = 0
    /\ current_run_id = NoRunId
    /\ queries = 0

RouterIdle == RouterParked("off") /\ ledger = <<>>

StrategyIdle ==
    /\ strategy_call = [strategy |-> "none"]
    /\ strategy_pc = "off"
    /\ requests = <<>>
    /\ strategy_result = NoResponse

IsolationIdle ==
    /\ invocations = <<>>
    /\ objects = <<>>

ConcurrentIdle == inflight = <<>>

OthersIdle == StrategyIdle /\ IsolationIdle /\ ConcurrentIdle

(***************************************************************************)
(* Specifications                                                          *)
(***************************************************************************)

\* the router and the ledger
Init ==
    /\ RouterInit /\ ClsIdle /\ RetrievalIdle /\ StreamIdle /\ TrackerInit
    /\ OthersIdle

Next == RouterNext

Spec == Init /\ [][Next]_vars

\* detect_processing_mode as a function
ClassifyInit ==
    /\ ClsInit /\ RouterIdle /\ RetrievalIdle /\ StreamIdle /\ TrackerInit
    /\ OthersIdle

ClassifyNext == ClassifyCall

ClassifySpec == ClassifyInit /\ [][ClassifyNext]_vars

\* sequential add_entry_to_index calls on one collection
CacheSpecInit ==
    /\ CacheInit /\ ClsIdle /\ RouterIdle /\ StreamIdle /\ TrackerInit
    /\ OthersIdle

CacheNext == AddEntryToIndex

CacheSpec == CacheSpecInit /\ [][CacheNext]_vars

\* one search call
SearchSpecInit ==
    /\ SearchInit /\ ClsIdle /\ RouterIdle /\ StreamIdle /\ TrackerInit
    /\ OthersIdle

SearchNext ==
    \/ RunAiSearchQuery
    \/ GetEntitySchemas
    \/ GetColumnValues

SearchSpec == SearchSpecInit /\ [][SearchNext]_vars

\* run_autogen() on one agent stream
StreamSpecInit ==
    /\ StreamInit /\ ClsIdle /\ RouterIdle /\ RetrievalIdle /\ TrackerInit
    /\ OthersIdle

StreamSpec == StreamSpecInit /\ [][StreamNext]_vars

\* the tracker called directly
TrackerSpecInit ==
    /\ TrackerInit /\ RouterParked("tracker") /\ ClsIdle /\ RetrievalIdle
    /\ StreamIdle /\ OthersIdle
    /\ ledger \in {<<>>, SeededStore}

TrackerSpec == TrackerSpecInit /\ [][TrackerNext]_vars

\* the same, with a store that ends up serving every run it holds
TrackerLiveSpec == TrackerSpec /\ WF_vars(BecomesVisible)

\* one invocation of a strategy
StrategySpecInit ==
    /\ StrategyInit /\ ClsIdle /\ RouterIdle /\ RetrievalIdle /\ StreamIdle
    /\ TrackerInit /\ IsolationIdle /\ ConcurrentIdle

StrategySpec == StrategySpecInit /\ [][StrategyNext]_vars

\* overlapping process_autogen invocations
IsolationSpecInit ==
    /\ IsolationInit /\ ClsIdle /\ RouterIdle /\ RetrievalIdle /\ StreamIdle
    /\ TrackerInit /\ StrategyIdle /\ ConcurrentIdle

IsolationSpec == IsolationSpecInit /\ [][IsolationNext]_vars

\* overlapping add_entry_to_index calls on one collection
ConcurrentCacheSpecInit ==
    /\ ConcurrentInit /\ ClsIdle /\ RouterIdle /\ StreamIdle /\ TrackerInit
    /\ StrategyIdle /\ IsolationIdle

ConcurrentCacheSpec == ConcurrentCacheSpecInit /\ [][ConcurrentNext]_vars

\* one session of queries with feedback
SessionSpecInit ==
    /\ TrackerInit /\ RouterParked("session_idle") /\ ClsIdle /\ RetrievalIdle
    /\ StreamIdle /\ OthersIdle
    /\ ledger = <<>>

SessionSpec == SessionSpecInit /\ [][SessionNext]_vars


(***************************************************************************)
(* Properties of the router and the ledger (specification Spec)            *)
(***************************************************************************)

\* log_query_experiment has returned for the current query
Logged == pc = "render" \/ (pc = "idle" /\ queries > 0)

\* the processor has returned a response of its own (main did not build it)
Returned == (pc \in {"display", "render"} \/ (pc = "idle" /\ queries > 0))

\* the run the current query added to the store, when it added one
NewRun == ledger[Len(ledger)]

ResultEvents == {"st.error: Error processing query", "st.error: failed", "result"}

\* C2: nothing of the result or of its error message is on the page before
\* log_query_experiment has returned.
C2_LoggedBeforeShown ==
    (\E i \in DOMAIN shown : shown[i] \in ResultEvents) => Len(log_calls) >= 1

\* the response methods a strategy produces
MethodsOf(strategy) ==
    CASE strategy = "process_pattern_match" -> {"Pattern Match"}
      [] strategy = "process_ai_powered" ->
            {"AI-Powered", "AI-Powered (CLAUDE)", "AI-Powered (OPENAI)"}
      [] OTHER -> {"AutoGen Multi-Agent"}

\* C3: one processor call invokes at most one strategy, at most once; a response
\* that is not that strategy's own is the Fallback failure, returned after no
\* strategy at all or after a pattern lookup that found no key.
C3_SingleShot ==
    /\ Len(invoked) <= 1
    /\ (Returned /\ response.method # "Error") =>
          \/ /\ invoked # <<>>
             /\ response.method \in MethodsOf(invoked[1])
          \/ /\ response.method = "Fallback"
             /\ ~response.success
             /\ invoked \in {<<>>, <<"process_pattern_match">>}
             /\ invoked # <<>> => FirstPattern(Lower(final_question), 1) = 0

\* C3 witness: the pattern lookup found no key while a completion client
\* exists, and the call returned the Fallback failure.
C3_Witness ==
    /\ pc = "display"
    /\ systems.llm_client
    /\ invoked = <<"process_pattern_match">>
    /\ response.method = "Fallback"

\* C4: after the timeout, with a worker that never finishes, process_autogen
\* can return: it is not waiting for the worker.
C4_TimeoutReturnsWithoutWaiting ==
    (pc = "executor_exit" /\ timed_out /\ worker.hangs) => ENABLED ExecutorExit

\* the strategy an explicit mode names
StrategyOf(m) ==
    CASE m = "Pattern Match" -> "process_pattern_match"
      [] m = "AI-Powered" -> "process_ai_powered"
      [] OTHER -> "process_autogen"

\* C6: under an explicit mode, every strategy invoked is the one the mode names.
C6_ExplicitModeWins ==
    processing_mode # "Smart Auto" =>
        \A i \in DOMAIN invoked : invoked[i] = StrategyOf(processing_mode)

\* C6 witness: AI-Powered was selected for a question holding a pattern key,
\* and the AI strategy ran.
C6_Witness ==
    /\ processing_mode = "AI-Powered"
    /\ detect_processing_mode(final_question) = "Pattern Match"
    /\ invoked = <<"process_ai_powered">>
    /\ pc = "display"

(***************************************************************************)
(* Properties of detect_processing_mode (specification ClassifySpec)       *)
(***************************************************************************)

\* the strategy the rules give for a lower-cased question
RuleMode(question_lower) ==
    IF \E k \in DOMAIN PATTERN_QUERIES :
          IsSubstring(PATTERN_QUERIES[k].pattern, question_lower)
    THEN "Pattern Match"
    ELSE IF \E k \in DOMAIN complex_indicators :
               IsSubstring(complex_indicators[k], question_lower)
    THEN "AutoGen Multi-Agent"
    ELSE "AI-Powered"

\* C5: every call returns what the rules give for the lower-cased question
\* (a pattern key wins over a complexity keyword), and calls on questions that
\* are equal up to letter case return the same strategy.
C5_Classification ==
    /\ \A i \in DOMAIN cls_calls :
          cls_calls[i].mode = RuleMode(Lower(cls_calls[i].question))
    /\ \A i, j \in DOMAIN cls_calls :
          Lower(cls_calls[i].question) = Lower(cls_calls[j].question) =>
              cls_calls[i].mode = cls_calls[j].mode

\* C5 witness: two calls on differently-cased texts of one question that holds
\* a pattern key and a complexity keyword; both returned Pattern Match.
C5_Witness ==
    /\ Len(cls_calls) = 2
    /\ cls_calls[1].question # cls_calls[2].question
    /\ cls_calls[1].question # Lower(cls_calls[1].question)
    /\ AnyIndicator(Lower(cls_calls[1].question))
    /\ cls_calls[1].mode = "Pattern Match"
    /\ cls_calls[2].mode = "Pattern Match"


(***************************************************************************)
(* Properties of add_entry_to_index (specification CacheSpec)              *)
(***************************************************************************)

\* the Question texts added so far
AddedQuestions == { adds[i]["Question"] : i \in DOMAIN adds }

\* the most recent successful add for a Question
LastAdd(q) ==
    adds[CHOOSE i \in DOMAIN adds :
            /\ adds[i]["Question"] = q
            /\ \A j \in DOMAIN adds : adds[j]["Question"] = q => j <= i]

\* C7: the collection holds exactly one entry per distinct Question added, under
\* the id encoding that Question, and the entry holds the most recent add's
\* content for it.
C7_OneEntryPerQuestion ==
    /\ Cardinality(DOMAIN collection) = Cardinality(AddedQuestions)
    /\ \A q \in AddedQuestions :
          LET id == urlsafe_b64encode(q) IN
          /\ id \in DOMAIN collection
          /\ collection[id].document = q
          /\ collection[id].metadata = LastAdd(q)

\* C7 witness: Q1/A1 then Q1/A2 were added; one record is stored, Answer A2.
C7_Witness ==
    /\ Len(adds) = 2
    /\ adds[1]["Question"] = <<81, 49>> /\ adds[1]["Answer"] = "A1"
    /\ adds[2]["Question"] = <<81, 49>> /\ adds[2]["Answer"] = "A2"
    /\ Cardinality(DOMAIN collection) = 1
    /\ \A id \in DOMAIN collection : collection[id].metadata["Answer"] = "A2"

(***************************************************************************)
(* Properties of the search calls (specification SearchSpec)               *)
(***************************************************************************)

\* the positions of a response whose score reaches minimum_score / 4, in order
Reaching(results, m) ==
    SelectSeq([i \in 1..Len(results) |-> i],
              LAMBDA i : 4 * (8 - results[i].distance) >= m)

\* C8: with minimum_score supplied, run_ai_search_query returns, in order,
\* exactly the candidates whose score 1 - distance is at least minimum_score / 4
\* (none of them dropped, no other kept), and with include_scores the score
\* attached to an entry is that value.
C8_MinimumScoreFilter ==
    (/\ last_call.op = "run_ai_search_query"
     /\ last_result.returned
     /\ last_call.minimum_score # <<>>) =>
        LET results == last_call.results
            kept    == Reaching(results, last_call.minimum_score[1])
            entries == last_result.entries
        IN  /\ Len(entries) = Len(kept)
            /\ \A j \in 1..Len(kept) :
                  LET score == 8 - results[kept[j]].distance IN
                  IF last_call.include_scores
                  THEN /\ "@search.score" \in DOMAIN entries[j]
                       /\ entries[j]["@search.score"] = score
                       /\ 4 * entries[j]["@search.score"] >= last_call.minimum_score[1]
                       /\ Del(entries[j], "@search.score") = results[kept[j]].metadata
                  ELSE entries[j] = results[kept[j]].metadata

\* C8 witness: minimum_score 1.5 with scores asked for; the candidate at score
\* 0.375 (the threshold itself) came back with that score, the one at 0.25 did not.
C8_Witness ==
    /\ last_call.op = "run_ai_search_query"
    /\ last_result.returned
    /\ last_call.minimum_score = <<12>>
    /\ last_call.include_scores
    /\ Len(last_call.results) = 2
    /\ last_call.results[1].distance = 5
    /\ last_call.results[2].distance = 6
    /\ Len(last_result.entries) = 1
    /\ last_result.entries[1]["@search.score"] = 3

\* the members of a list
Members(list) == { list[k] : k \in DOMAIN list }

\* C9: no entry get_entity_schemas returns has a lower-cased Entity name that
\* is a member of excluded_entities.
C9_NoExcludedEntity ==
    (last_call.op = "get_entity_schemas" /\ last_result.returned) =>
        \A j \in DOMAIN last_result.entries :
            "Entity" \in DOMAIN last_result.entries[j] =>
                Lower(last_result.entries[j]["Entity"])
                    \notin Members(last_call.excluded_entities)

\* C9 witness: "ab" is excluded; of two candidates that pass the score filter,
\* entity "Ab" and entity "b", only "b" came back.
C9_Witness ==
    /\ last_call.op = "get_entity_schemas"
    /\ last_result.returned
    /\ last_call.excluded_entities = <<LowerAb>>
    /\ Len(last_call.results) = 2
    /\ last_call.results[1].distance = 5
    /\ last_call.results[2].distance = 5
    /\ "Entity" \in DOMAIN last_call.results[1].metadata
    /\ last_call.results[1].metadata["Entity"] = EntityAb
    /\ "Entity" \in DOMAIN last_call.results[2].metadata
    /\ last_call.results[2].metadata["Entity"] = EntityB
    /\ Len(last_result.entries) = 1
    /\ last_result.entries[1]["Entity"] = EntityB

\* C10: with a non-empty excluded_entities, no returned entry has an FQN key.
C10_NoFQN ==
    (/\ last_call.op = "get_entity_schemas"
     /\ last_result.returned
     /\ Len(last_call.excluded_entities) > 0) =>
        \A j \in DOMAIN last_result.entries :
            "FQN" \notin DOMAIN last_result.entries[j]

\* C10 witness: a stored entry carrying FQN passed the filters of a call with
\* a non-empty excluded_entities and came back.
C10_Witness ==
    /\ last_call.op = "get_entity_schemas"
    /\ last_result.returned
    /\ Len(last_call.excluded_entities) > 0
    /\ Len(last_call.results) = 1
    /\ "FQN" \in DOMAIN last_call.results[1].metadata
    /\ Len(last_result.entries) = 1

(***************************************************************************)
(* Properties of run_autogen (specification StreamSpec)                    *)
(***************************************************************************)

\* the positions of the events that have a payload type other than
\* processing_update
Terminals(events) ==
    { i \in DOMAIN events :
        "payload_type" \in DOMAIN events[i]
        /\ events[i].payload_type # "processing_update" }

FirstTerminal(events) ==
    CHOOSE i \in Terminals(events) : \A j \in Terminals(events) : i <= j

\* run_autogen returned from the code after the loop
ParsedAndReturned == stream_pc = "returned" /\ response_data # <<>>

\* C11: the result of process_autogen_sync is determined by the first event of
\* the stream whose payload type is not processing_update: the events before
\* it change nothing, the events after it are not consumed, a
\* disambiguation_requests event gives a disambiguation result, and an
\* answer_with_sources event gives an answer result with its narrative, its
\* source pairs, and the SQL and rows of its last source.
C11_FirstTerminalDecides ==
    /\ (stream_pc = "returned" /\ autogen_result = NoResponseReceived)
          => Terminals(stream) = {}
    /\ ParsedAndReturned =>
          /\ Terminals(stream) # {}
          /\ consumed = FirstTerminal(stream)
          /\ response_data[1] = stream[FirstTerminal(stream)]
          /\ LET event == stream[FirstTerminal(stream)] IN
             /\ (event.payload_type = "disambiguation_requests"
                   /\ "body" \in DOMAIN event)
                  => /\ autogen_result.success
                     /\ autogen_result.response_type = "disambiguation"
             /\ (event.payload_type = "answer_with_sources"
                   /\ "body" \in DOMAIN event)
                  => /\ autogen_result.success
                     /\ autogen_result.response_type = "answer"
                     /\ "answer" \in DOMAIN event.body
                          => autogen_result.answer = event.body.answer
                     /\ "sources" \in DOMAIN event.body
                          => LET n == Len(event.body.sources) IN
                             /\ autogen_result.sources = event.body.sources
                             /\ n > 0 =>
                                  /\ autogen_result.sql_query
                                        = event.body.sources[n].sql_query
                                  /\ autogen_result.results
                                        = event.body.sources[n].sql_rows
                             /\ n = 0 =>
                                  /\ autogen_result.sql_query = None
                                  /\ autogen_result.results = <<>>

\* C11 witness: an answer event after a processing_update and before a
\* disambiguation event decided the result, and the third event was not read.
C11_Witness ==
    /\ stream_pc = "returned"
    /\ Len(stream) = 3
    /\ "payload_type" \in DOMAIN stream[1]
    /\ stream[1].payload_type = "processing_update"
    /\ "payload_type" \in DOMAIN stream[2]
    /\ stream[2].payload_type = "answer_with_sources"
    /\ "payload_type" \in DOMAIN stream[3]
    /\ stream[3].payload_type = "disambiguation_requests"
    /\ consumed = 2
    /\ "response_type" \in DOMAIN autogen_result
    /\ autogen_result.response_type = "answer"
    /\ autogen_result.sql_query = "sql2"

\* C12: a stream that ends without any event other than processing_update
\* events (the empty stream included) gives a failure result with an error
\* message, never a success.
C12_NoTerminalIsFailure ==
    (stream_pc = "returned" /\ Terminals(stream) = {}) =>
        /\ ~autogen_result.success
        /\ "error" \in DOMAIN autogen_result
        /\ autogen_result.error # ""

\* C12 witness: a stream of two update events was read to its end and
\* run_autogen returned the "No response received" failure.
C12_Witness ==
    /\ stream_pc = "returned"
    /\ Len(stream) = 2
    /\ consumed = 2
    /\ Terminals(stream) = {}
    /\ autogen_result = NoResponseReceived

\* the position before the choices of request i in the concatenation
RECURSIVE ChoicesBefore(_, _)
ChoicesBefore(reqs, i) ==
    IF i <= 1 THEN 0
    ELSE ChoicesBefore(reqs, i - 1)
         + (IF "user_choices" \in DOMAIN reqs[i - 1]
            THEN Len(reqs[i - 1].user_choices) ELSE 0)

CarriesQuestion(req) ==
    "assistant_question" \in DOMAIN req /\ req.assistant_question # ""

\* C13: for a terminal disambiguation event, clarification_questions holds in
\* order the question of every request that carries one and user_choices is
\* the in-order concatenation of the choices of all requests.
C13_DisambiguationCounts ==
    (/\ ParsedAndReturned
     /\ response_data[1].payload_type = "disambiguation_requests"
     /\ "body" \in DOMAIN response_data[1]
     /\ "disambiguation_requests" \in DOMAIN response_data[1].body) =>
        LET reqs     == response_data[1].body.disambiguation_requests
            carrying == SelectSeq(reqs, CarriesQuestion)
            total    == ChoicesBefore(reqs, Len(reqs) + 1)
        IN  /\ Len(autogen_result.clarification_questions) = Len(carrying)
            /\ \A k \in DOMAIN carrying :
                  autogen_result.clarification_questions[k]
                      = carrying[k].assistant_question
            /\ Len(autogen_result.user_choices) = total
            /\ \A i \in DOMAIN reqs :
                  "user_choices" \in DOMAIN reqs[i] =>
                     \A j \in DOMAIN reqs[i].user_choices :
                        autogen_result.user_choices[ChoicesBefore(reqs, i) + j]
                            = reqs[i].user_choices[j]

\* C13 witness: a disambiguation event with 2 clarifying questions and 3
\* choices gave a result with 2 questions and 3 choices.
C13_Witness ==
    /\ ParsedAndReturned
    /\ response_data[1].payload_type = "disambiguation_requests"
    /\ "clarification_questions" \in DOMAIN autogen_result
    /\ autogen_result.clarification_questions = <<"q1", "q2">>
    /\ autogen_result.user_choices = <<"c1", "c2", "c3">>

\* C20: a first non-update event that is neither an answer-with-sources nor a
\* disambiguation-request never gives a successful result.
C20_UnrecognizedIsFailure ==
    (/\ ParsedAndReturned
     /\ response_data[1].payload_type
           \notin {"answer_with_sources", "disambiguation_requests"}) =>
        ~autogen_result.success

(***************************************************************************)
(* Properties of the tracker called directly (specification TrackerSpec)   *)
(***************************************************************************)

FeedbackParams == {"user_comment", "user_id", "feedback_timestamp"}

\* the position in the store of the run with this id
IndexOf(store, run_id) == CHOOSE i \in DOMAIN store : store[i].run_id = run_id

\* this step is a log_user_feedback call; TheCall is the call
FeedbackStep == Len(feedback_calls') = Len(feedback_calls) + 1

TheCall == feedback_calls'[Len(feedback_calls')]

\* the call's four feedback fields are on the record after the step
FieldsSet ==
    LET new == ledger'[IndexOf(ledger, TheCall.run_id)] IN
    /\ "user_rating" \in DOMAIN new.metrics
    /\ new.metrics["user_rating"] = TheCall.user_rating
    /\ FeedbackParams \subseteq DOMAIN new.params
    /\ new.params["user_comment"] = TheCall.user_comment
    /\ new.params["user_id"] = "test_user"
    /\ new.params["feedback_timestamp"] = TheCall.now

\* the step changes nothing but feedback fields of the record of the call
NothingElseChanges ==
    /\ Len(ledger') = Len(ledger)
    /\ \A i \in DOMAIN ledger :
          /\ ledger'[i].run_id = ledger[i].run_id
          /\ i # IndexOf(ledger, TheCall.run_id) =>
                /\ ledger'[i].params = ledger[i].params
                /\ ledger'[i].metrics = ledger[i].metrics
          /\ DOMAIN ledger'[i].params \subseteq DOMAIN ledger[i].params \cup FeedbackParams
          /\ DOMAIN ledger'[i].metrics \subseteq DOMAIN ledger[i].metrics \cup {"user_rating"}
          /\ \A k \in DOMAIN ledger[i].params \ FeedbackParams :
                k \in DOMAIN ledger'[i].params
                /\ ledger'[i].params[k] = ledger[i].params[k]
          /\ \A k \in DOMAIN ledger[i].metrics \ {"user_rating"} :
                k \in DOMAIN ledger'[i].metrics
                /\ ledger'[i].metrics[k] = ledger[i].metrics[k]

\* a log_query_experiment step keeps every record the store had
QueryKeepsRecords ==
    queries' # queries =>
        /\ Len(ledger') >= Len(ledger)
        /\ \A i \in DOMAIN ledger : ledger'[i] = ledger[i]

Attached(i) ==
    /\ i \in DOMAIN feedback_calls
    /\ LET run == ledger[IndexOf(ledger, feedback_calls[i].run_id)] IN
       /\ "feedback_timestamp" \in DOMAIN run.params
       /\ run.params["feedback_timestamp"] = feedback_calls[i].now

\* call i was made, against a store that accepts every call, for a record the
\* store did not serve yet
MadeTooEarly(i) ==
    /\ i \in DOMAIN feedback_calls
    /\ ~feedback_calls[i].served
    /\ feedback_calls[i].mlflow = "ok"

\* C16: the feedback of a log_user_feedback call made for a record that is not
\* visible yet is eventually attached to that record.
C16_EventuallyAttached ==
    \A i \in 1..MaxFeedbacks : MadeTooEarly(i) ~> Attached(i)

\* the records with success = 1
Successes(runs) ==
    { i \in DOMAIN runs :
        "success" \in DOMAIN runs[i].metrics /\ runs[i].metrics["success"] = 1 }

Rated(runs) == { i \in DOMAIN runs : "user_rating" \in DOMAIN runs[i].metrics }

\* C17: get_experiment_stats reports total_runs equal to the number of
\* records and, when there is a record, successful_runs equal to the number
\* of records with success = 1, and it reports an average user rating exactly
\* when some record has feedback.
C17_StatsMatchLedger ==
    stats.called =>
        /\ "total_runs" \in DOMAIN stats.value
        /\ stats.value["total_runs"] = Len(stats.runs)
        /\ stats.runs # <<>> =>
              /\ "successful_runs" \in DOMAIN stats.value
              /\ stats.value["successful_runs"] = Cardinality(Successes(stats.runs))
        /\ "average_user_rating" \in DOMAIN stats.value <=> Rated(stats.runs) # {}

\* get_experiment_stats reported the totals of a store with runs
StatsReported ==
    /\ stats.called
    /\ "successful_runs" \in DOMAIN stats.value
    /\ stats.value["total_runs"] = 4

(***************************************************************************)
(* Properties of the feedback section (specification SessionSpec)          *)
(***************************************************************************)

\* C15: in a session, no two feedback submissions name the same run, every
\* submission names the run of the most recently logged query, and once the
\* latest run has been rated current_run_id is cleared.
C15_OneFeedbackPerRun ==
    /\ \A i, j \in DOMAIN feedback_calls :
          i # j => feedback_calls[i].run_id # feedback_calls[j].run_id
    /\ \A i \in DOMAIN feedback_calls :
          feedback_calls[i].run_id = feedback_calls[i].latest
    /\ (/\ feedback_calls # <<>>
        /\ feedback_calls[Len(feedback_calls)].run_id = ledger[Len(ledger)].run_id
        /\ pc = "session_idle")
          => current_run_id = NoRunId

\* C15 witness: two queries were processed and each run was rated once.
C15_Witness ==
    /\ pc = "session_idle"
    /\ Len(ledger) = 2
    /\ Len(feedback_calls) = 2
    /\ feedback_calls[1].run_id = 1
    /\ feedback_calls[2].run_id = 2
    /\ "user_rating" \in DOMAIN ledger[1].metrics
    /\ "user_rating" \in DOMAIN ledger[2].metrics
    /\ current_run_id = NoRunId

(***************************************************************************)
(* Order of the search results (specification SearchSpec)                  *)
(***************************************************************************)

\* the positions of a response that run_ai_search_query keeps, in order
KeptPositions(results, minimum_score) ==
    IF minimum_score = <<>> THEN [i \in 1..Len(results) |-> i]
    ELSE Reaching(results, minimum_score[1])

ContainsPatternKey(question) ==
    \E i \in DOMAIN PATTERN_QUERIES :
        IsSubstring(PATTERN_QUERIES[i].pattern, Lower(question))

\* C19: whenever the router has invoked process_pattern_match, the question
\* contains a PATTERN_QUERIES key.
C19_PatternInvokedOnlyOnMatch ==
    (\E k \in DOMAIN invoked : invoked[k] = "process_pattern_match")
        => ContainsPatternKey(final_question)


(***************************************************************************)
(* C21, C22: the strategies, request by request                            *)
(***************************************************************************)

\* the positions of the keys that occur in the lower-cased question
MatchingKeys(question) ==
    { i \in 1..Len(PATTERN_QUERIES) :
        IsSubstring(PATTERN_QUERIES[i].pattern, Lower(question)) }

EarliestKey(question) ==
    CHOOSE i \in MatchingKeys(question) : \A j \in MatchingKeys(question) : i <= j

OfKind(kind) == { k \in 1..Len(requests) : requests[k].kind = kind }

PatternCall == strategy_call.strategy = "process_pattern_match"

AICall == strategy_call.strategy = "process_ai_powered"

\* C21: an invocation of process_pattern_match never sends more than one query,
\* and when it has returned for a question in which some key occurs, the one
\* query it sent, and the sql_query it reports, is the template of the earliest
\* such key in PATTERN_QUERIES order.
C21_FirstMatchWins ==
    PatternCall =>
        /\ Len(requests) <= 1
        /\ \A k \in 1..Len(requests) :
              /\ requests[k].kind = "query_execution"
              /\ MatchingKeys(strategy_call.question) # {}
              /\ requests[k].sql =
                     PATTERN_QUERIES[EarliestKey(strategy_call.question)].sql_query
        /\ (strategy_pc = "returned" /\ MatchingKeys(strategy_call.question) # {}) =>
              /\ Len(requests) = 1
              /\ strategy_result # NoResponse
              /\ strategy_result.sql_query = requests[1].sql

\* a returned invocation on a question in which two keys with different
\* templates occur
C21_Witness ==
    /\ PatternCall
    /\ strategy_pc = "returned"
    /\ \E i, j \in MatchingKeys(strategy_call.question) :
          /\ i < j
          /\ PATTERN_QUERIES[i].sql_query # PATTERN_QUERIES[j].sql_query
          /\ strategy_result.sql_query = PATTERN_QUERIES[i].sql_query

\* C22: an invocation of process_ai_powered never sends more than one completion
\* request nor more than one query; once it has returned it has sent exactly one
\* completion request, and if that request or the query raised, the request
\* that raised is the last one sent and the result is a failure with an error
\* message and no SQL.
C22_SingleShotAI ==
    AICall =>
        /\ Cardinality(OfKind("completion")) <= 1
        /\ Cardinality(OfKind("query_execution")) <= 1
        /\ strategy_pc = "returned" =>
              /\ Cardinality(OfKind("completion")) = 1
              /\ requests[1].kind = "completion"
              /\ \A k \in 1..Len(requests) :
                    requests[k].outcome = "raises" =>
                        /\ k = Len(requests)
                        /\ strategy_result.success = FALSE
                        /\ strategy_result.error # None
                        /\ strategy_result.sql_query = None
                        /\ strategy_result.results = <<>>

\* a returned invocation whose query raised after a completed completion
C22_Witness ==
    /\ AICall
    /\ strategy_pc = "returned"
    /\ Len(requests) = 2
    /\ requests[2].kind = "query_execution"
    /\ requests[2].outcome = "raises"
    /\ strategy_result.success = FALSE


(***************************************************************************)
(* C23, C24: add_entry_to_index when the embedding request raises and when *)
(* a vector field is missing                                               *)
(***************************************************************************)

AddCall == last_call.op = "add_entry_to_index"

\* C23: when the embedding request of an add_entry_to_index call raises, the
\* call has made exactly one request and the caller sees the failure: the call
\* raises rather than returns.  (run_ai_search_query awaits its embedding
\* request outside any try, lines 50-52, and does propagate.)
C23_EmbeddingFailurePropagates ==
    (AddCall /\ last_call.embedding_request = "raises") =>
        /\ last_result.embedding_requests = 1
        /\ last_result.raised
        /\ ~last_result.returned

\* C24: a call of add_entry_to_index with a document that lacks a key of
\* vector_fields returns without raising, makes no embedding request, leaves the
\* collection and the clock as they were and leaves the document without a
\* DateLastModified stamp.
C24_MissingFieldWritesNothing ==
    [][ (last_call'.op = "add_entry_to_index" /\ last_call'.missing_field) =>
            /\ collection' = collection
            /\ adds' = adds
            /\ clock' = clock
            /\ last_result'.returned
            /\ ~last_result'.raised
            /\ last_result'.embedding_requests = 0
            /\ ~last_result'.stamped ]_vars

\* a call with a missing field made on a collection that holds an entry
C24_Witness ==
    /\ AddCall
    /\ last_call.missing_field
    /\ last_result.returned
    /\ Len(adds) = 1
    /\ collection # Empty


(***************************************************************************)
(* C25: what Multi-Agent invocations share                                 *)
(***************************************************************************)

\* the objects invocation i runs on or uses
Uses(i) ==
    {invocations[i].thread, invocations[i].loop, invocations[i].store,
     invocations[i].system} \ {NoObject}

\* C25: the thread, event loop, agent system and state store of an invocation
\* were created by that invocation, no two invocations use a common one, and
\* once the worker of an invocation is done, whatever the outcome, its event
\* loop is closed.
C25_NothingShared ==
    \A i \in 1..Len(invocations) :
        /\ \A o \in Uses(i) : objects[o].by = i
        /\ \A j \in 1..Len(invocations) : i # j => Uses(i) \cap Uses(j) = {}
        /\ invocations[i].thread # NoObject
        /\ invocations[i].pc \in {"in_loop", "streaming", "finished", "ended"} =>
              /\ invocations[i].loop # NoObject
              /\ objects[invocations[i].loop].kind = "loop"
        /\ invocations[i].pc = "streaming" =>
              /\ objects[invocations[i].system].kind = "system"
              /\ objects[invocations[i].store].kind = "store"
              /\ ~objects[invocations[i].loop].closed
        /\ invocations[i].pc \in {"finished", "ended"} =>
              objects[invocations[i].loop].closed

\* two overlapping invocations: one ended by an exception that left
\* run_until_complete, while the other reads its stream
C25_Witness ==
    \E i, j \in 1..Len(invocations) :
        /\ invocations[i].pc = "ended"
        /\ invocations[i].outcome = "raised"
        /\ Cardinality(Uses(i)) = 4
        /\ invocations[j].pc = "streaming"
        /\ Cardinality(Uses(j)) = 4


(***************************************************************************)
(* C26: the strategy buckets of the ledger                                 *)
(***************************************************************************)

\* the metrics get_experiment_stats counts under approaches_used
BucketMetrics == {"pattern_match_used", "ai_powered_used", "autogen_used"}

\* the buckets a run is counted in
BucketsOf(run) ==
    { k \in BucketMetrics : k \in DOMAIN run.metrics /\ run.metrics[k] = 1 }

\* the query ran a strategy and the response is that strategy's own
RanStrategy ==
    /\ Returned
    /\ invoked # <<>>
    /\ response.method \in MethodsOf(invoked[1])

\* C26: the run that a complete log_query_experiment call writes for a query
\* that ran a strategy is counted in exactly one of the three strategy
\* buckets, whether the strategy succeeded or failed.
C26_OneBucketPerRecord ==
    (Logged /\ RanStrategy /\ Len(ledger) = runs_before + 1
        /\ NewRun.status = "FINISHED") =>
        Cardinality(BucketsOf(NewRun)) = 1


(***************************************************************************)
(* C27, C29, C30: get_column_values and get_entity_schemas                 *)
(***************************************************************************)

C29_UnfilteredWhenNothingExcluded ==
    (/\ last_call.op = "get_entity_schemas"
     /\ last_result.returned
     /\ last_call.excluded_entities = <<>>) =>
        LET results == last_call.results
            kept    == KeptPositions(results, <<EntitySchemaMinimumScore>>)
        IN  /\ Len(results) <= EntitySchemaTop
            /\ last_result.entries = [j \in 1..Len(kept) |-> results[kept[j]].metadata]

\* nothing excluded, engine fields given; two candidates came back, the first
\* with FQN and an empty relationship graph, the second with a filled graph
C29_Witness ==
    /\ last_call.op = "get_entity_schemas"
    /\ last_result.returned
    /\ last_call.excluded_entities = <<>>
    /\ last_call.engine_specific_fields # <<>>
    /\ Len(last_result.entries) = 2
    /\ "FQN" \in DOMAIN last_result.entries[1]
    /\ "CompleteEntityRelationshipsGraph" \in DOMAIN last_result.entries[1]
    /\ last_result.entries[1]["CompleteEntityRelationshipsGraph"] = <<>>
    /\ "CompleteEntityRelationshipsGraph" \in DOMAIN last_result.entries[2]
    /\ last_result.entries[2]["CompleteEntityRelationshipsGraph"] = RelFull

\* a relationship string with only a leading fqn_to_trim taken off
LeadingStripped(x, fqn_to_trim) ==
    IF fqn_to_trim # <<>> /\ StartsWith(x, fqn_to_trim)
    THEN SubSeq(x, Len(fqn_to_trim) + 1, Len(x))
    ELSE x

\* the relationship graphs of the candidates, each string with only its
\* leading prefix taken off
GraphsLeadingStripped(results, fqn_to_trim) ==
    { [k \in 1..Len(results[i].metadata["CompleteEntityRelationshipsGraph"]) |->
         LeadingStripped(results[i].metadata["CompleteEntityRelationshipsGraph"][k],
                         fqn_to_trim)] :
      i \in { n \in 1..Len(results) :
                "CompleteEntityRelationshipsGraph" \in DOMAIN results[n].metadata } }

\* C30: with a non-empty excluded_entities, the relationship graph of every
\* entry returned is the stored graph of a candidate with only the leading
\* prefix (engine_specific_fields joined with '.') taken off each string:
\* later occurrences of the prefix, and strings that do not start with it, are
\* as stored.
C30_OnlyLeadingPrefixRemoved ==
    (/\ last_call.op = "get_entity_schemas"
     /\ last_result.returned
     /\ Len(last_call.excluded_entities) > 0) =>
        \A j \in DOMAIN last_result.entries :
            "CompleteEntityRelationshipsGraph" \in DOMAIN last_result.entries[j] =>
                last_result.entries[j]["CompleteEntityRelationshipsGraph"]
                    \in GraphsLeadingStripped(last_call.results,
                                              Join(<<46>>, last_call.engine_specific_fields))


(***************************************************************************)
(* C28: overlapping add_entry_to_index calls for one Question              *)
(***************************************************************************)

\* the calls that have upserted
Completed == { i \in 1..Len(inflight) : inflight[i].outcome = "upserted" }

\* C28: for every call that has upserted, the collection holds an entry under
\* the id of its Question, and no call that stamped earlier has replaced the
\* entry of one that stamped later: the DateLastModified stored is the latest
\* among the completed calls for that Question.
C28_LatestStampWins ==
    \A i \in Completed :
        LET id == DocId(inflight[i].document) IN
        /\ id \in DOMAIN collection
        /\ collection[id].metadata["DateLastModified"]
              >= inflight[i].document["DateLastModified"]

=============================================================================
